---------------------------- MODULE Spec2Model ----------------------------
(***************************************************************************)
(* A model of feedcraft's RSS 2.0 parser, src/feedmodels/rss_20.py.        *)
(*                                                                         *)
(* Python strings are sequences of one-character strings, so that strip,   *)
(* upper, capitalize, substring search and int() are computed character by *)
(* character.  `str | None` is an option record: None or Some(v).          *)
(*                                                                         *)
(* An XML element is a record [tag |-> "el", prefix, name, attrs, kids];   *)
(* kids is the sequence of its child nodes in document order, each an      *)
(* element, a character-data node [tag |-> "text", s] or a comment         *)
(* [tag |-> "comment", s].  The tree is what                               *)
(* BeautifulSoup(rss, "xml") builds (namespace prefixes kept in the tag    *)
(* name as prefix:name, attribute values of type str).                     *)
(***************************************************************************)
EXTENDS Integers, Sequences, FiniteSets, TLC

---------------------------------------------------------------------------
(* Option values *)

None == [some |-> FALSE]
Some(v) == [some |-> TRUE, v |-> v]
IsNone(o) == ~o.some

---------------------------------------------------------------------------
(* Python str operations.  A character is a one-character string; one     *)
(* that is not printable, or lies beyond U+00FF, is written by its code    *)
(* point, "U+0131".  The case tables cover the characters below U+0250     *)
(* (ASCII, Latin-1, Latin Extended-A and -B): the characters of a modelled *)
(* text are drawn from these and from Whitespace.                          *)

(* The characters str.strip() removes and int() ignores: str.isspace()     *)
Whitespace ==
  { "\t", "\n", "U+000B", "\f", "\r", "U+001C", "U+001D", "U+001E", "U+001F",
    " ", "U+0085", "U+00A0", "U+1680", "U+2000", "U+2001", "U+2002",
    "U+2003", "U+2004", "U+2005", "U+2006", "U+2007", "U+2008", "U+2009",
    "U+200A", "U+2028", "U+2029", "U+202F", "U+205F", "U+3000" }

(* str.upper() of the characters it changes: <<character, replacement>>    *)
UpperTable ==
  { <<"a", <<"A">>>>, <<"b", <<"B">>>>, <<"c", <<"C">>>>, <<"d", <<"D">>>>,
    <<"e", <<"E">>>>, <<"f", <<"F">>>>, <<"g", <<"G">>>>, <<"h", <<"H">>>>,
    <<"i", <<"I">>>>, <<"j", <<"J">>>>, <<"k", <<"K">>>>, <<"l", <<"L">>>>,
    <<"m", <<"M">>>>, <<"n", <<"N">>>>, <<"o", <<"O">>>>, <<"p", <<"P">>>>,
    <<"q", <<"Q">>>>, <<"r", <<"R">>>>, <<"s", <<"S">>>>, <<"t", <<"T">>>>,
    <<"u", <<"U">>>>, <<"v", <<"V">>>>, <<"w", <<"W">>>>, <<"x", <<"X">>>>,
    <<"y", <<"Y">>>>, <<"z", <<"Z">>>>, <<"µ", <<"U+039C">>>>,
    <<"ß", <<"S", "S">>>>, <<"à", <<"À">>>>, <<"á", <<"Á">>>>,
    <<"â", <<"Â">>>>, <<"ã", <<"Ã">>>>, <<"ä", <<"Ä">>>>, <<"å", <<"Å">>>>,
    <<"æ", <<"Æ">>>>, <<"ç", <<"Ç">>>>, <<"è", <<"È">>>>, <<"é", <<"É">>>>,
    <<"ê", <<"Ê">>>>, <<"ë", <<"Ë">>>>, <<"ì", <<"Ì">>>>, <<"í", <<"Í">>>>,
    <<"î", <<"Î">>>>, <<"ï", <<"Ï">>>>, <<"ð", <<"Ð">>>>, <<"ñ", <<"Ñ">>>>,
    <<"ò", <<"Ò">>>>, <<"ó", <<"Ó">>>>, <<"ô", <<"Ô">>>>, <<"õ", <<"Õ">>>>,
    <<"ö", <<"Ö">>>>, <<"ø", <<"Ø">>>>, <<"ù", <<"Ù">>>>, <<"ú", <<"Ú">>>>,
    <<"û", <<"Û">>>>, <<"ü", <<"Ü">>>>, <<"ý", <<"Ý">>>>, <<"þ", <<"Þ">>>>,
    <<"ÿ", <<"U+0178">>>>, <<"U+0101", <<"U+0100">>>>,
    <<"U+0103", <<"U+0102">>>>, <<"U+0105", <<"U+0104">>>>,
    <<"U+0107", <<"U+0106">>>>, <<"U+0109", <<"U+0108">>>>,
    <<"U+010B", <<"U+010A">>>>, <<"U+010D", <<"U+010C">>>>,
    <<"U+010F", <<"U+010E">>>>, <<"U+0111", <<"U+0110">>>>,
    <<"U+0113", <<"U+0112">>>>, <<"U+0115", <<"U+0114">>>>,
    <<"U+0117", <<"U+0116">>>>, <<"U+0119", <<"U+0118">>>>,
    <<"U+011B", <<"U+011A">>>>, <<"U+011D", <<"U+011C">>>>,
    <<"U+011F", <<"U+011E">>>>, <<"U+0121", <<"U+0120">>>>,
    <<"U+0123", <<"U+0122">>>>, <<"U+0125", <<"U+0124">>>>,
    <<"U+0127", <<"U+0126">>>>, <<"U+0129", <<"U+0128">>>>,
    <<"U+012B", <<"U+012A">>>>, <<"U+012D", <<"U+012C">>>>,
    <<"U+012F", <<"U+012E">>>>, <<"U+0131", <<"I">>>>,
    <<"U+0133", <<"U+0132">>>>, <<"U+0135", <<"U+0134">>>>,
    <<"U+0137", <<"U+0136">>>>, <<"U+013A", <<"U+0139">>>>,
    <<"U+013C", <<"U+013B">>>>, <<"U+013E", <<"U+013D">>>>,
    <<"U+0140", <<"U+013F">>>>, <<"U+0142", <<"U+0141">>>>,
    <<"U+0144", <<"U+0143">>>>, <<"U+0146", <<"U+0145">>>>,
    <<"U+0148", <<"U+0147">>>>, <<"U+0149", <<"U+02BC", "N">>>>,
    <<"U+014B", <<"U+014A">>>>, <<"U+014D", <<"U+014C">>>>,
    <<"U+014F", <<"U+014E">>>>, <<"U+0151", <<"U+0150">>>>,
    <<"U+0153", <<"U+0152">>>>, <<"U+0155", <<"U+0154">>>>,
    <<"U+0157", <<"U+0156">>>>, <<"U+0159", <<"U+0158">>>>,
    <<"U+015B", <<"U+015A">>>>, <<"U+015D", <<"U+015C">>>>,
    <<"U+015F", <<"U+015E">>>>, <<"U+0161", <<"U+0160">>>>,
    <<"U+0163", <<"U+0162">>>>, <<"U+0165", <<"U+0164">>>>,
    <<"U+0167", <<"U+0166">>>>, <<"U+0169", <<"U+0168">>>>,
    <<"U+016B", <<"U+016A">>>>, <<"U+016D", <<"U+016C">>>>,
    <<"U+016F", <<"U+016E">>>>, <<"U+0171", <<"U+0170">>>>,
    <<"U+0173", <<"U+0172">>>>, <<"U+0175", <<"U+0174">>>>,
    <<"U+0177", <<"U+0176">>>>, <<"U+017A", <<"U+0179">>>>,
    <<"U+017C", <<"U+017B">>>>, <<"U+017E", <<"U+017D">>>>,
    <<"U+017F", <<"S">>>>, <<"U+0180", <<"U+0243">>>>,
    <<"U+0183", <<"U+0182">>>>, <<"U+0185", <<"U+0184">>>>,
    <<"U+0188", <<"U+0187">>>>, <<"U+018C", <<"U+018B">>>>,
    <<"U+0192", <<"U+0191">>>>, <<"U+0195", <<"U+01F6">>>>,
    <<"U+0199", <<"U+0198">>>>, <<"U+019A", <<"U+023D">>>>,
    <<"U+019E", <<"U+0220">>>>, <<"U+01A1", <<"U+01A0">>>>,
    <<"U+01A3", <<"U+01A2">>>>, <<"U+01A5", <<"U+01A4">>>>,
    <<"U+01A8", <<"U+01A7">>>>, <<"U+01AD", <<"U+01AC">>>>,
    <<"U+01B0", <<"U+01AF">>>>, <<"U+01B4", <<"U+01B3">>>>,
    <<"U+01B6", <<"U+01B5">>>>, <<"U+01B9", <<"U+01B8">>>>,
    <<"U+01BD", <<"U+01BC">>>>, <<"U+01BF", <<"U+01F7">>>>,
    <<"U+01C5", <<"U+01C4">>>>, <<"U+01C6", <<"U+01C4">>>>,
    <<"U+01C8", <<"U+01C7">>>>, <<"U+01C9", <<"U+01C7">>>>,
    <<"U+01CB", <<"U+01CA">>>>, <<"U+01CC", <<"U+01CA">>>>,
    <<"U+01CE", <<"U+01CD">>>>, <<"U+01D0", <<"U+01CF">>>>,
    <<"U+01D2", <<"U+01D1">>>>, <<"U+01D4", <<"U+01D3">>>>,
    <<"U+01D6", <<"U+01D5">>>>, <<"U+01D8", <<"U+01D7">>>>,
    <<"U+01DA", <<"U+01D9">>>>, <<"U+01DC", <<"U+01DB">>>>,
    <<"U+01DD", <<"U+018E">>>>, <<"U+01DF", <<"U+01DE">>>>,
    <<"U+01E1", <<"U+01E0">>>>, <<"U+01E3", <<"U+01E2">>>>,
    <<"U+01E5", <<"U+01E4">>>>, <<"U+01E7", <<"U+01E6">>>>,
    <<"U+01E9", <<"U+01E8">>>>, <<"U+01EB", <<"U+01EA">>>>,
    <<"U+01ED", <<"U+01EC">>>>, <<"U+01EF", <<"U+01EE">>>>,
    <<"U+01F0", <<"J", "U+030C">>>>, <<"U+01F2", <<"U+01F1">>>>,
    <<"U+01F3", <<"U+01F1">>>>, <<"U+01F5", <<"U+01F4">>>>,
    <<"U+01F9", <<"U+01F8">>>>, <<"U+01FB", <<"U+01FA">>>>,
    <<"U+01FD", <<"U+01FC">>>>, <<"U+01FF", <<"U+01FE">>>>,
    <<"U+0201", <<"U+0200">>>>, <<"U+0203", <<"U+0202">>>>,
    <<"U+0205", <<"U+0204">>>>, <<"U+0207", <<"U+0206">>>>,
    <<"U+0209", <<"U+0208">>>>, <<"U+020B", <<"U+020A">>>>,
    <<"U+020D", <<"U+020C">>>>, <<"U+020F", <<"U+020E">>>>,
    <<"U+0211", <<"U+0210">>>>, <<"U+0213", <<"U+0212">>>>,
    <<"U+0215", <<"U+0214">>>>, <<"U+0217", <<"U+0216">>>>,
    <<"U+0219", <<"U+0218">>>>, <<"U+021B", <<"U+021A">>>>,
    <<"U+021D", <<"U+021C">>>>, <<"U+021F", <<"U+021E">>>>,
    <<"U+0223", <<"U+0222">>>>, <<"U+0225", <<"U+0224">>>>,
    <<"U+0227", <<"U+0226">>>>, <<"U+0229", <<"U+0228">>>>,
    <<"U+022B", <<"U+022A">>>>, <<"U+022D", <<"U+022C">>>>,
    <<"U+022F", <<"U+022E">>>>, <<"U+0231", <<"U+0230">>>>,
    <<"U+0233", <<"U+0232">>>>, <<"U+023C", <<"U+023B">>>>,
    <<"U+023F", <<"U+2C7E">>>>, <<"U+0240", <<"U+2C7F">>>>,
    <<"U+0242", <<"U+0241">>>>, <<"U+0247", <<"U+0246">>>>,
    <<"U+0249", <<"U+0248">>>>, <<"U+024B", <<"U+024A">>>>,
    <<"U+024D", <<"U+024C">>>>, <<"U+024F", <<"U+024E">>>> }

(* str.lower() of the characters it changes                                *)
LowerTable ==
  { <<"A", <<"a">>>>, <<"B", <<"b">>>>, <<"C", <<"c">>>>, <<"D", <<"d">>>>,
    <<"E", <<"e">>>>, <<"F", <<"f">>>>, <<"G", <<"g">>>>, <<"H", <<"h">>>>,
    <<"I", <<"i">>>>, <<"J", <<"j">>>>, <<"K", <<"k">>>>, <<"L", <<"l">>>>,
    <<"M", <<"m">>>>, <<"N", <<"n">>>>, <<"O", <<"o">>>>, <<"P", <<"p">>>>,
    <<"Q", <<"q">>>>, <<"R", <<"r">>>>, <<"S", <<"s">>>>, <<"T", <<"t">>>>,
    <<"U", <<"u">>>>, <<"V", <<"v">>>>, <<"W", <<"w">>>>, <<"X", <<"x">>>>,
    <<"Y", <<"y">>>>, <<"Z", <<"z">>>>, <<"À", <<"à">>>>, <<"Á", <<"á">>>>,
    <<"Â", <<"â">>>>, <<"Ã", <<"ã">>>>, <<"Ä", <<"ä">>>>, <<"Å", <<"å">>>>,
    <<"Æ", <<"æ">>>>, <<"Ç", <<"ç">>>>, <<"È", <<"è">>>>, <<"É", <<"é">>>>,
    <<"Ê", <<"ê">>>>, <<"Ë", <<"ë">>>>, <<"Ì", <<"ì">>>>, <<"Í", <<"í">>>>,
    <<"Î", <<"î">>>>, <<"Ï", <<"ï">>>>, <<"Ð", <<"ð">>>>, <<"Ñ", <<"ñ">>>>,
    <<"Ò", <<"ò">>>>, <<"Ó", <<"ó">>>>, <<"Ô", <<"ô">>>>, <<"Õ", <<"õ">>>>,
    <<"Ö", <<"ö">>>>, <<"Ø", <<"ø">>>>, <<"Ù", <<"ù">>>>, <<"Ú", <<"ú">>>>,
    <<"Û", <<"û">>>>, <<"Ü", <<"ü">>>>, <<"Ý", <<"ý">>>>, <<"Þ", <<"þ">>>>,
    <<"U+0100", <<"U+0101">>>>, <<"U+0102", <<"U+0103">>>>,
    <<"U+0104", <<"U+0105">>>>, <<"U+0106", <<"U+0107">>>>,
    <<"U+0108", <<"U+0109">>>>, <<"U+010A", <<"U+010B">>>>,
    <<"U+010C", <<"U+010D">>>>, <<"U+010E", <<"U+010F">>>>,
    <<"U+0110", <<"U+0111">>>>, <<"U+0112", <<"U+0113">>>>,
    <<"U+0114", <<"U+0115">>>>, <<"U+0116", <<"U+0117">>>>,
    <<"U+0118", <<"U+0119">>>>, <<"U+011A", <<"U+011B">>>>,
    <<"U+011C", <<"U+011D">>>>, <<"U+011E", <<"U+011F">>>>,
    <<"U+0120", <<"U+0121">>>>, <<"U+0122", <<"U+0123">>>>,
    <<"U+0124", <<"U+0125">>>>, <<"U+0126", <<"U+0127">>>>,
    <<"U+0128", <<"U+0129">>>>, <<"U+012A", <<"U+012B">>>>,
    <<"U+012C", <<"U+012D">>>>, <<"U+012E", <<"U+012F">>>>,
    <<"U+0130", <<"i", "U+0307">>>>, <<"U+0132", <<"U+0133">>>>,
    <<"U+0134", <<"U+0135">>>>, <<"U+0136", <<"U+0137">>>>,
    <<"U+0139", <<"U+013A">>>>, <<"U+013B", <<"U+013C">>>>,
    <<"U+013D", <<"U+013E">>>>, <<"U+013F", <<"U+0140">>>>,
    <<"U+0141", <<"U+0142">>>>, <<"U+0143", <<"U+0144">>>>,
    <<"U+0145", <<"U+0146">>>>, <<"U+0147", <<"U+0148">>>>,
    <<"U+014A", <<"U+014B">>>>, <<"U+014C", <<"U+014D">>>>,
    <<"U+014E", <<"U+014F">>>>, <<"U+0150", <<"U+0151">>>>,
    <<"U+0152", <<"U+0153">>>>, <<"U+0154", <<"U+0155">>>>,
    <<"U+0156", <<"U+0157">>>>, <<"U+0158", <<"U+0159">>>>,
    <<"U+015A", <<"U+015B">>>>, <<"U+015C", <<"U+015D">>>>,
    <<"U+015E", <<"U+015F">>>>, <<"U+0160", <<"U+0161">>>>,
    <<"U+0162", <<"U+0163">>>>, <<"U+0164", <<"U+0165">>>>,
    <<"U+0166", <<"U+0167">>>>, <<"U+0168", <<"U+0169">>>>,
    <<"U+016A", <<"U+016B">>>>, <<"U+016C", <<"U+016D">>>>,
    <<"U+016E", <<"U+016F">>>>, <<"U+0170", <<"U+0171">>>>,
    <<"U+0172", <<"U+0173">>>>, <<"U+0174", <<"U+0175">>>>,
    <<"U+0176", <<"U+0177">>>>, <<"U+0178", <<"ÿ">>>>,
    <<"U+0179", <<"U+017A">>>>, <<"U+017B", <<"U+017C">>>>,
    <<"U+017D", <<"U+017E">>>>, <<"U+0181", <<"U+0253">>>>,
    <<"U+0182", <<"U+0183">>>>, <<"U+0184", <<"U+0185">>>>,
    <<"U+0186", <<"U+0254">>>>, <<"U+0187", <<"U+0188">>>>,
    <<"U+0189", <<"U+0256">>>>, <<"U+018A", <<"U+0257">>>>,
    <<"U+018B", <<"U+018C">>>>, <<"U+018E", <<"U+01DD">>>>,
    <<"U+018F", <<"U+0259">>>>, <<"U+0190", <<"U+025B">>>>,
    <<"U+0191", <<"U+0192">>>>, <<"U+0193", <<"U+0260">>>>,
    <<"U+0194", <<"U+0263">>>>, <<"U+0196", <<"U+0269">>>>,
    <<"U+0197", <<"U+0268">>>>, <<"U+0198", <<"U+0199">>>>,
    <<"U+019C", <<"U+026F">>>>, <<"U+019D", <<"U+0272">>>>,
    <<"U+019F", <<"U+0275">>>>, <<"U+01A0", <<"U+01A1">>>>,
    <<"U+01A2", <<"U+01A3">>>>, <<"U+01A4", <<"U+01A5">>>>,
    <<"U+01A6", <<"U+0280">>>>, <<"U+01A7", <<"U+01A8">>>>,
    <<"U+01A9", <<"U+0283">>>>, <<"U+01AC", <<"U+01AD">>>>,
    <<"U+01AE", <<"U+0288">>>>, <<"U+01AF", <<"U+01B0">>>>,
    <<"U+01B1", <<"U+028A">>>>, <<"U+01B2", <<"U+028B">>>>,
    <<"U+01B3", <<"U+01B4">>>>, <<"U+01B5", <<"U+01B6">>>>,
    <<"U+01B7", <<"U+0292">>>>, <<"U+01B8", <<"U+01B9">>>>,
    <<"U+01BC", <<"U+01BD">>>>, <<"U+01C4", <<"U+01C6">>>>,
    <<"U+01C5", <<"U+01C6">>>>, <<"U+01C7", <<"U+01C9">>>>,
    <<"U+01C8", <<"U+01C9">>>>, <<"U+01CA", <<"U+01CC">>>>,
    <<"U+01CB", <<"U+01CC">>>>, <<"U+01CD", <<"U+01CE">>>>,
    <<"U+01CF", <<"U+01D0">>>>, <<"U+01D1", <<"U+01D2">>>>,
    <<"U+01D3", <<"U+01D4">>>>, <<"U+01D5", <<"U+01D6">>>>,
    <<"U+01D7", <<"U+01D8">>>>, <<"U+01D9", <<"U+01DA">>>>,
    <<"U+01DB", <<"U+01DC">>>>, <<"U+01DE", <<"U+01DF">>>>,
    <<"U+01E0", <<"U+01E1">>>>, <<"U+01E2", <<"U+01E3">>>>,
    <<"U+01E4", <<"U+01E5">>>>, <<"U+01E6", <<"U+01E7">>>>,
    <<"U+01E8", <<"U+01E9">>>>, <<"U+01EA", <<"U+01EB">>>>,
    <<"U+01EC", <<"U+01ED">>>>, <<"U+01EE", <<"U+01EF">>>>,
    <<"U+01F1", <<"U+01F3">>>>, <<"U+01F2", <<"U+01F3">>>>,
    <<"U+01F4", <<"U+01F5">>>>, <<"U+01F6", <<"U+0195">>>>,
    <<"U+01F7", <<"U+01BF">>>>, <<"U+01F8", <<"U+01F9">>>>,
    <<"U+01FA", <<"U+01FB">>>>, <<"U+01FC", <<"U+01FD">>>>,
    <<"U+01FE", <<"U+01FF">>>>, <<"U+0200", <<"U+0201">>>>,
    <<"U+0202", <<"U+0203">>>>, <<"U+0204", <<"U+0205">>>>,
    <<"U+0206", <<"U+0207">>>>, <<"U+0208", <<"U+0209">>>>,
    <<"U+020A", <<"U+020B">>>>, <<"U+020C", <<"U+020D">>>>,
    <<"U+020E", <<"U+020F">>>>, <<"U+0210", <<"U+0211">>>>,
    <<"U+0212", <<"U+0213">>>>, <<"U+0214", <<"U+0215">>>>,
    <<"U+0216", <<"U+0217">>>>, <<"U+0218", <<"U+0219">>>>,
    <<"U+021A", <<"U+021B">>>>, <<"U+021C", <<"U+021D">>>>,
    <<"U+021E", <<"U+021F">>>>, <<"U+0220", <<"U+019E">>>>,
    <<"U+0222", <<"U+0223">>>>, <<"U+0224", <<"U+0225">>>>,
    <<"U+0226", <<"U+0227">>>>, <<"U+0228", <<"U+0229">>>>,
    <<"U+022A", <<"U+022B">>>>, <<"U+022C", <<"U+022D">>>>,
    <<"U+022E", <<"U+022F">>>>, <<"U+0230", <<"U+0231">>>>,
    <<"U+0232", <<"U+0233">>>>, <<"U+023A", <<"U+2C65">>>>,
    <<"U+023B", <<"U+023C">>>>, <<"U+023D", <<"U+019A">>>>,
    <<"U+023E", <<"U+2C66">>>>, <<"U+0241", <<"U+0242">>>>,
    <<"U+0243", <<"U+0180">>>>, <<"U+0244", <<"U+0289">>>>,
    <<"U+0245", <<"U+028C">>>>, <<"U+0246", <<"U+0247">>>>,
    <<"U+0248", <<"U+0249">>>>, <<"U+024A", <<"U+024B">>>>,
    <<"U+024C", <<"U+024D">>>>, <<"U+024E", <<"U+024F">>>> }

(* The characters whose title case, which capitalize() gives the first     *)
(* character, is not their upper case                                      *)
TitleTable ==
  { <<"ß", <<"S", "s">>>>, <<"U+01C4", <<"U+01C5">>>>,
    <<"U+01C5", <<"U+01C5">>>>, <<"U+01C6", <<"U+01C5">>>>,
    <<"U+01C7", <<"U+01C8">>>>, <<"U+01C8", <<"U+01C8">>>>,
    <<"U+01C9", <<"U+01C8">>>>, <<"U+01CA", <<"U+01CB">>>>,
    <<"U+01CB", <<"U+01CB">>>>, <<"U+01CC", <<"U+01CB">>>>,
    <<"U+01F1", <<"U+01F2">>>>, <<"U+01F2", <<"U+01F2">>>>,
    <<"U+01F3", <<"U+01F2">>>> }

(* The mapping of a table *)
CaseMap(table) ==
  [c \in { p[1] : p \in table } |-> (CHOOSE p \in table : p[1] = c)[2]]

UpperMap == CaseMap(UpperTable)

LowerMap == CaseMap(LowerTable)

TitleMap == CaseMap(TitleTable)

UpperChar(c) == IF c \in DOMAIN UpperMap THEN UpperMap[c] ELSE <<c>>

TitleChar(c) == IF c \in DOMAIN TitleMap THEN TitleMap[c] ELSE UpperChar(c)

RECURSIVE Mapped(_, _)
(* The text with each character replaced by what map gives for it, the     *)
(* characters map does not hold left as they are; the text is taken by     *)
(* halves.                                                                 *)
Mapped(map, s) ==
  IF Len(s) = 0 THEN <<>>
  ELSE IF Len(s) = 1 THEN (IF s[1] \in DOMAIN map THEN map[s[1]] ELSE s)
  ELSE LET half == Len(s) \div 2
       IN  Mapped(map, SubSeq(s, 1, half)) \o Mapped(map, SubSeq(s, half + 1, Len(s)))

(* str.upper(): a character may become several *)
Upper(s) == Mapped(UpperMap, s)

(* str.lower() *)
Lower(s) == Mapped(LowerMap, s)

(* str.capitalize(): first character title-cased, the rest lower-cased *)
Capitalize(s) ==
  IF s = <<>> THEN <<>> ELSE TitleChar(Head(s)) \o Lower(Tail(s))

IndexIn(c, letters) == CHOOSE i \in 1..Len(letters) : letters[i] = c

IsIn(c, letters) == \E i \in 1..Len(letters) : letters[i] = c

RECURSIVE LStrip(_)
(* str.lstrip() *)
LStrip(s) ==
  IF s # <<>> /\ Head(s) \in Whitespace THEN LStrip(Tail(s)) ELSE s

RECURSIVE RStrip(_)
(* str.rstrip() *)
RStrip(s) ==
  IF s # <<>> /\ s[Len(s)] \in Whitespace
  THEN RStrip(SubSeq(s, 1, Len(s) - 1))
  ELSE s

(* str.strip() *)
Strip(s) == RStrip(LStrip(s))

(* needle in hay *)
Contains(hay, needle) ==
  \E i \in 0..(Len(hay) - Len(needle)) :
     SubSeq(hay, i + 1, i + Len(needle)) = needle

Digits == <<"0","1","2","3","4","5","6","7","8","9">>

IsDigit(c) == IsIn(c, Digits)

DigitVal(c) == IndexIn(c, Digits) - 1

(* The digits-and-underscores grammar of an int() literal: decimal digits, *)
(* single underscores allowed between digits only.                         *)
IsIntBody(s) ==
  /\ s # <<>>
  /\ \A i \in 1..Len(s) : IsDigit(s[i]) \/ s[i] = "_"
  /\ IsDigit(s[1]) /\ IsDigit(s[Len(s)])
  /\ \A i \in 1..(Len(s) - 1) : ~(s[i] = "_" /\ s[i + 1] = "_")

RECURSIVE IntBodyVal(_)
IntBodyVal(s) ==
  IF s = <<>> THEN 0
  ELSE LET init == SubSeq(s, 1, Len(s) - 1)
           last == s[Len(s)]
       IN  IF last = "_" THEN IntBodyVal(init)
           ELSE 10 * IntBodyVal(init) + DigitVal(last)

(* int(s): Some(n), or None where Python raises ValueError.  Surrounding   *)
(* whitespace is ignored and one sign is allowed.                           *)
PyInt(s) ==
  LET t == Strip(s)
      signed == t # <<>> /\ t[1] \in {"+", "-"}
      body == IF signed THEN Tail(t) ELSE t
  IN  IF ~IsIntBody(body) THEN None
      ELSE IF signed /\ t[1] = "-" THEN Some(0 - IntBodyVal(body))
      ELSE Some(IntBodyVal(body))

---------------------------------------------------------------------------
(* The element tree *)

Txt(s) == [tag |-> "text", s |-> s, cdata |-> FALSE]

(* Character data written as a CDATA section; the tree holds the same string *)
CData(s) == [tag |-> "text", s |-> s, cdata |-> TRUE]

(* A bs4 Comment: a NavigableString holding the text between <!-- and --> *)
Comment(s) == [tag |-> "comment", s |-> s]

El(prefix, name, attrs, kids) ==
  [tag |-> "el", prefix |-> prefix, name |-> name, attrs |-> attrs, kids |-> kids]

NoAttrs == [a \in {} |-> <<>>]

(* Tag.name as bs4 stores it: "prefix:name", or "name" without a prefix.   *)
(* Kept as the pair so that the split on ":" is a projection.               *)
TagName(node) == [prefix |-> node.prefix, local |-> node.name]

(* tag_name.split(":", 1)[-1] *)
_local_name(tag_name) == tag_name.local

(* parent.find_all(True, recursive=False): the child elements, in order *)
ChildTags(parent) == SelectSeq(parent.kids, LAMBDA k : k.tag = "el")

RECURSIVE FirstMatch(_, _)
FirstMatch(tags, name) ==
  IF tags = <<>> THEN None
  ELSE IF _local_name(TagName(Head(tags))) = name THEN Some(Head(tags))
  ELSE FirstMatch(Tail(tags), name)

RECURSIVE AllTags(_)
(* parent.find_all(True): every descendant tag, in document order *)
AllTags(kids) ==
  IF kids = <<>> THEN <<>>
  ELSE (IF Head(kids).tag = "el"
        THEN <<Head(kids)>> \o AllTags(Head(kids).kids)
        ELSE <<>>)
       \o AllTags(Tail(kids))

(* _find_direct_child without recursive=False *)
_find_direct_child_Recursive(parent, name) == FirstMatch(AllTags(parent.kids), name)

_find_direct_child(parent, name) == FirstMatch(ChildTags(parent), name)

_find_children(parent, name) ==
  SelectSeq(ChildTags(parent), LAMBDA k : _local_name(TagName(k)) = name)

RECURSIVE NodeString(_)
(* Tag.string: the single child's string, following single-child chains;   *)
(* None for a tag with no child or with several.  The single child may be  *)
(* any NavigableString, a Comment included.                                *)
NodeString(node) ==
  IF Len(node.kids) # 1 THEN None
  ELSE IF node.kids[1].tag \in {"text", "comment"} THEN Some(node.kids[1].s)
  ELSE NodeString(node.kids[1])

RECURSIVE GetTextAll(_)
RECURSIVE ConcatText(_)
(* Tag.get_text(): every descendant string of character data or CDATA,     *)
(* concatenated in document order; comments are left out.                  *)
GetTextAll(node) == ConcatText(node.kids)

ConcatText(kids) ==
  IF kids = <<>> THEN <<>>
  ELSE (IF Head(kids).tag = "text" THEN Head(kids).s
        ELSE IF Head(kids).tag = "comment" THEN <<>>
        ELSE GetTextAll(Head(kids)))
       \o ConcatText(Tail(kids))

(* _get_text(node) with its default strip=True; node is an option *)
_get_text(node) ==
  IF IsNone(node) THEN None
  ELSE LET str == NodeString(node.v)
           text == IF ~IsNone(str) THEN str.v ELSE GetTextAll(node.v)
       IN  Some(Strip(text))

(* The values an attribute of a Tag may hold.  The "xml" builder stores    *)
(* every value as a str; the other shapes are the ones _normalize_attr     *)
(* provides for.  decode("utf-8") is the codec's: a bytes value carries    *)
(* its strict decoding, None where that raises UnicodeDecodeError, and its *)
(* decoding with errors="ignore".  A value of another type carries its     *)
(* str().  The items of a list or tuple are values or None.                *)
PyStr(s) == [type |-> "str", v |-> s]
PyBytes(strict, ignoring) == [type |-> "bytes", strict |-> strict, ignoring |-> ignoring]
PyList(items) == [type |-> "list", v |-> items]
PyTuple(items) == [type |-> "tuple", v |-> items]
PyOther(str) == [type |-> "other", str |-> str]

RECURSIVE _normalize_attr(_), FirstNormalized(_)
(* Lines 387-403; value is None or Some(attribute value) *)
_normalize_attr(value) ==
  IF IsNone(value) THEN None
  ELSE IF value.v.type = "str" THEN Some(value.v.v)
  ELSE IF value.v.type = "bytes"
  THEN IF IsNone(value.v.strict) THEN Some(value.v.ignoring) ELSE value.v.strict
  ELSE IF value.v.type \in {"list", "tuple"} THEN FirstNormalized(value.v.v)
  ELSE Some(value.v.str)

(* Lines 397-402: the first item that normalises to a text *)
FirstNormalized(items) ==
  IF items = <<>> THEN None
  ELSE LET text == _normalize_attr(Head(items))
       IN  IF ~IsNone(text) THEN text ELSE FirstNormalized(Tail(items))

_get_attr(tag, name) ==
  LET raw == IF name \in DOMAIN tag.attrs THEN Some(tag.attrs[name]) ELSE None
      value == _normalize_attr(raw)
  IN  IF IsNone(value) THEN None ELSE Some(Strip(value.v))

---------------------------------------------------------------------------
(* Outcomes of a call that may raise *)

Ok(v) == [ok |-> TRUE, v |-> v]
Err(e) == [ok |-> FALSE, err |-> e]

TypeError(msg) == [exc |-> "TypeError", msg |-> msg]
RssParseError(msg) == [exc |-> "RssParseError", msg |-> msg]
ValueError(msg) == [exc |-> "ValueError", msg |-> msg]

(* `not value` for a str | None *)
Falsy(o) == IsNone(o) \/ o.v = <<>>

---------------------------------------------------------------------------
(* Document model entities and their validate() methods.  A validator      *)
(* yields None when it returns and Some(error) when it raises.             *)

Weekdays ==
  { <<"M","o","n","d","a","y">>,
    <<"T","u","e","s","d","a","y">>,
    <<"W","e","d","n","e","s","d","a","y">>,
    <<"T","h","u","r","s","d","a","y">>,
    <<"F","r","i","d","a","y">>,
    <<"S","a","t","u","r","d","a","y">>,
    <<"S","u","n","d","a","y">> }

(* The alias `type Weekday = Literal[...]`: a TypeAliasType whose value is  *)
(* the Literal, not the Literal itself.                                    *)
Weekday == [kind |-> "TypeAliasType", value |-> Weekdays]

(* typing.get_args: the arguments of a subscripted generic, and the empty  *)
(* tuple for anything else, a TypeAliasType included.                      *)
get_args(tp) == IF tp.kind = "GenericAlias" THEN tp.args ELSE {}

(* valid_days of _parse_skip_days: set(get_args(Weekday)), which is empty  *)
valid_days == get_args(Weekday)

Enclosure_validate(self) ==
  IF self.length < 0
  THEN Some(ValueError("Enclosure length must be a non-negative byte count."))
  ELSE None

AllowedProtocols ==
  { <<"H","T","T","P","-","P","O","S","T">>,
    <<"h","t","t","p","-","p","o","s","t">>,
    <<"X","M","L","-","R","P","C">>,
    <<"x","m","l","-","r","p","c">>,
    <<"S","O","A","P"," ","1",".","1">>,
    <<"s","o","a","p">> }

(* Cloud.validate comparing the protocol without regard to letter case *)
Cloud_validate_AnyCase(self) ==
  IF Upper(self.protocol) \notin { Upper(a) : a \in AllowedProtocols }
  THEN Some(ValueError("Cloud protocol must be one of HTTP-POST, XML-RPC, or SOAP 1.1."))
  ELSE None

Cloud_validate(self) ==
  IF self.protocol \notin AllowedProtocols
  THEN Some(ValueError("Cloud protocol must be one of HTTP-POST, XML-RPC, or SOAP 1.1."))
  ELSE None

ImageDefaultWidth == 88
ImageDefaultHeight == 31
ImageMaxWidth == 144
ImageMaxHeight == 400

(* Image.validate checking the width alone *)
Image_validate_WidthOnly(self) ==
  IF self.width > ImageMaxWidth
  THEN Some(ValueError("Image width must not exceed 144 pixels."))
  ELSE None

Image_validate(self) ==
  IF self.width > ImageMaxWidth
  THEN Some(ValueError("Image width must not exceed 144 pixels."))
  ELSE IF self.height > ImageMaxHeight
  THEN Some(ValueError("Image height must not exceed 400 pixels."))
  ELSE None

Item_validate(self) ==
  IF IsNone(self.title) /\ IsNone(self.description)
  THEN Some(ValueError("RSS items require at least a title or a description."))
  ELSE None

MaxSkipHours == 24
MaxSkipDays == 7

Channel_validate(self) ==
  IF Len(self.skip_hours) > MaxSkipHours
  THEN Some(ValueError("skip_hours may contain at most 24 entries."))
  ELSE IF \E i \in 1..Len(self.skip_hours) :
             self.skip_hours[i] < 0 \/ self.skip_hours[i] > 23
  THEN Some(ValueError("Each skip hour must be between 0 and 23 inclusive."))
  ELSE IF Len(self.skip_days) > MaxSkipDays
  THEN Some(ValueError("skip_days may contain at most the seven days of the week."))
  ELSE IF ~IsNone(self.ttl) /\ self.ttl.v < 0
  THEN Some(ValueError("ttl must be a non-negative number of minutes."))
  ELSE None

Version20 == <<"2", ".", "0">>

RssFeed_validate(self) ==
  IF self.version # Version20
  THEN Some(ValueError("RSS 2.0 documents must declare version '2.0'."))
  ELSE None

---------------------------------------------------------------------------
(* Field extraction *)

_require_child_text(parent, name) ==
  LET child == _find_direct_child(parent, name)
      value == _get_text(child)
  IN  IF IsNone(value) \/ value.v = <<>>
      THEN Err(RssParseError("Missing required <" \o name \o "> element in RSS channel."))
      ELSE Ok(value.v)

_optional_child_text(parent, name) ==
  _get_text(_find_direct_child(parent, name))

RECURSIVE CategoriesOf(_)
CategoriesOf(cats) ==
  IF cats = <<>> THEN <<>>
  ELSE LET cat == Head(cats)
           value == _get_text(Some(cat))
       IN  IF Falsy(value) THEN CategoriesOf(Tail(cats))
           ELSE <<[value |-> value.v, domain |-> _get_attr(cat, "domain")]>>
                \o CategoriesOf(Tail(cats))

_parse_categories(parent) == CategoriesOf(_find_children(parent, "category"))

_parse_cloud(parent) ==
  LET cloud_tag == _find_direct_child(parent, "cloud")
  IN  IF IsNone(cloud_tag) THEN None
      ELSE
        LET domain == _get_attr(cloud_tag.v, "domain")
            port_text == _get_attr(cloud_tag.v, "port")
            path == _get_attr(cloud_tag.v, "path")
            register_procedure == _get_attr(cloud_tag.v, "registerProcedure")
            protocol == _get_attr(cloud_tag.v, "protocol")
        IN  IF \/ IsNone(domain) \/ IsNone(port_text) \/ IsNone(path)
               \/ IsNone(register_procedure) \/ IsNone(protocol)
            THEN None
            ELSE
              LET port_int == PyInt(port_text.v)
              IN  IF IsNone(port_int) THEN None
                  ELSE
                    LET cloud == [domain |-> domain.v,
                                  port |-> port_int.v,
                                  path |-> path.v,
                                  register_procedure |-> register_procedure.v,
                                  protocol |-> protocol.v]
                    IN  IF ~IsNone(Cloud_validate(cloud)) THEN None
                        ELSE Some(cloud)

_parse_int(value) ==
  IF IsNone(value) THEN None ELSE PyInt(Strip(value.v))

(* `_parse_int(...) or default`: None and 0 both give the default *)
OrDefault(n, default) == IF IsNone(n) \/ n.v = 0 THEN default ELSE n.v

_parse_image(parent) ==
  LET image_tag == _find_direct_child(parent, "image")
  IN  IF IsNone(image_tag) THEN None
      ELSE
        LET url == _optional_child_text(image_tag.v, "url")
            title == _optional_child_text(image_tag.v, "title")
            link == _optional_child_text(image_tag.v, "link")
        IN  IF IsNone(url) \/ IsNone(title) \/ IsNone(link) THEN None
            ELSE
              LET image ==
                    [url |-> url.v,
                     title |-> title.v,
                     link |-> link.v,
                     width |-> OrDefault(
                        _parse_int(_optional_child_text(image_tag.v, "width")),
                        ImageDefaultWidth),
                     height |-> OrDefault(
                        _parse_int(_optional_child_text(image_tag.v, "height")),
                        ImageDefaultHeight),
                     description |-> _optional_child_text(image_tag.v, "description")]
              IN  IF ~IsNone(Image_validate(image)) THEN None
                  ELSE Some(image)

_parse_text_input(parent) ==
  LET text_input_tag == _find_direct_child(parent, "textInput")
  IN  IF IsNone(text_input_tag) THEN None
      ELSE
        LET title == _optional_child_text(text_input_tag.v, "title")
            description == _optional_child_text(text_input_tag.v, "description")
            name == _optional_child_text(text_input_tag.v, "name")
            link == _optional_child_text(text_input_tag.v, "link")
        IN  IF IsNone(title) \/ IsNone(description) \/ IsNone(name) \/ IsNone(link)
            THEN None
            ELSE Some([title |-> title.v, description |-> description.v,
                       name |-> name.v, link |-> link.v])

RECURSIVE HoursOf(_)
HoursOf(hour_tags) ==
  IF hour_tags = <<>> THEN <<>>
  ELSE LET value == _parse_int(_get_text(Some(Head(hour_tags))))
       IN  IF IsNone(value) \/ ~(0 <= value.v /\ value.v <= 23)
           THEN HoursOf(Tail(hour_tags))
           ELSE <<value.v>> \o HoursOf(Tail(hour_tags))

_parse_skip_hours(parent) ==
  LET skip_hours_tag == _find_direct_child(parent, "skipHours")
  IN  IF IsNone(skip_hours_tag) THEN <<>>
      ELSE HoursOf(_find_children(skip_hours_tag.v, "hour"))

RECURSIVE DaysOf(_)
DaysOf(day_tags) ==
  IF day_tags = <<>> THEN <<>>
  ELSE LET value == _get_text(Some(Head(day_tags)))
       IN  IF Falsy(value) THEN DaysOf(Tail(day_tags))
           ELSE LET normalized == Capitalize(Strip(value.v))
                IN  IF normalized \in valid_days
                    THEN <<normalized>> \o DaysOf(Tail(day_tags))
                    ELSE DaysOf(Tail(day_tags))

_parse_skip_days(parent) ==
  LET skip_days_tag == _find_direct_child(parent, "skipDays")
  IN  IF IsNone(skip_days_tag) THEN <<>>
      ELSE DaysOf(_find_children(skip_days_tag.v, "day"))

PermaLinkTrue == { <<"t","r","u","e">>, <<"1">>, <<"y","e","s">> }
PermaLinkFalse == { <<"f","a","l","s","e">>, <<"0">>, <<"n","o">> }

_parse_guid(parent) ==
  LET guid_tag == _find_direct_child(parent, "guid")
  IN  IF IsNone(guid_tag) THEN None
      ELSE
        LET value == _get_text(guid_tag)
            attr == _get_attr(guid_tag.v, "isPermaLink")
        IN  IF Falsy(value) THEN None
            ELSE Some([value |-> value.v,
                       is_perma_link |->
                         IF IsNone(attr) THEN TRUE
                         ELSE IF Lower(attr.v) \in PermaLinkTrue THEN TRUE
                         ELSE IF Lower(attr.v) \in PermaLinkFalse THEN FALSE
                         ELSE TRUE])

_parse_enclosure(parent) ==
  LET enclosure_tag == _find_direct_child(parent, "enclosure")
  IN  IF IsNone(enclosure_tag) THEN None
      ELSE
        LET url == _get_attr(enclosure_tag.v, "url")
            length_text == _get_attr(enclosure_tag.v, "length")
            media_type == _get_attr(enclosure_tag.v, "type")
        IN  IF IsNone(url) \/ IsNone(length_text) \/ IsNone(media_type) THEN None
            ELSE
              LET length_int == PyInt(length_text.v)
              IN  IF IsNone(length_int) THEN None
                  ELSE
                    LET enclosure == [url |-> url.v, length |-> length_int.v,
                                      media_type |-> media_type.v]
                    IN  IF ~IsNone(Enclosure_validate(enclosure)) THEN None
                        ELSE Some(enclosure)

_parse_source(parent) ==
  LET source_tag == _find_direct_child(parent, "source")
  IN  IF IsNone(source_tag) THEN None
      ELSE
        LET url == _get_attr(source_tag.v, "url")
            name == _get_text(source_tag)
        IN  IF Falsy(url) \/ Falsy(name) THEN None
            ELSE Some([name |-> name.v, url |-> url.v])

(* The loop body of _parse_items skipping an item that lacks either one *)
ItemOf_NeedsBoth(item_tag) ==
  LET title == _optional_child_text(item_tag, "title")
      description == _optional_child_text(item_tag, "description")
  IN  IF IsNone(title) \/ IsNone(description) THEN None
      ELSE Some([title |-> title,
                 link |-> _optional_child_text(item_tag, "link"),
                 description |-> description,
                 author |-> _optional_child_text(item_tag, "author"),
                 categories |-> _parse_categories(item_tag),
                 comments |-> _optional_child_text(item_tag, "comments"),
                 enclosure |-> _parse_enclosure(item_tag),
                 guid |-> _parse_guid(item_tag),
                 pub_date |-> _optional_child_text(item_tag, "pubDate"),
                 source |-> _parse_source(item_tag)])

(* One pass of the loop body of _parse_items: the Item, or None when the   *)
(* loop continues without appending.                                       *)
ItemOf(item_tag) ==
  LET title == _optional_child_text(item_tag, "title")
      link == _optional_child_text(item_tag, "link")
      description == _optional_child_text(item_tag, "description")
      author == _optional_child_text(item_tag, "author")
      comments == _optional_child_text(item_tag, "comments")
      pub_date == _optional_child_text(item_tag, "pubDate")
      guid == _parse_guid(item_tag)
      enclosure == _parse_enclosure(item_tag)
      source == _parse_source(item_tag)
      categories == _parse_categories(item_tag)
  IN  IF IsNone(title) /\ IsNone(description) THEN None
      ELSE Some([title |-> title,
                 link |-> link,
                 description |-> description,
                 author |-> author,
                 categories |-> categories,
                 comments |-> comments,
                 enclosure |-> enclosure,
                 guid |-> guid,
                 pub_date |-> pub_date,
                 source |-> source])

RECURSIVE ItemsOf(_)
ItemsOf(item_tags) ==
  IF item_tags = <<>> THEN <<>>
  ELSE LET item == ItemOf(Head(item_tags))
       IN  IF IsNone(item) THEN ItemsOf(Tail(item_tags))
           ELSE <<item.v>> \o ItemsOf(Tail(item_tags))

_parse_items(parent) == ItemsOf(_find_children(parent, "item"))

---------------------------------------------------------------------------
(* The input of a call.  A textual input is the document                   *)
(*     lead \o pre \o Serialize(tree) \o post                              *)
(* where lead is leading whitespace, pre and post are markup outside the   *)
(* root element and tree is the document's element tree.  xml says what    *)
(* BeautifulSoup(rss, "xml") does with the text: it builds the tree, or    *)
(* raises FeatureNotFound (no xml tree builder installed), or raises some  *)
(* other exception; html is the tree the html.parser fallback builds.      *)

Spell ==
  [ rss |-> <<"r","s","s">>,
    channel |-> <<"c","h","a","n","n","e","l">>,
    title |-> <<"t","i","t","l","e">>,
    link |-> <<"l","i","n","k">>,
    description |-> <<"d","e","s","c","r","i","p","t","i","o","n">>,
    language |-> <<"l","a","n","g","u","a","g","e">>,
    copyright |-> <<"c","o","p","y","r","i","g","h","t">>,
    managingEditor |-> <<"m","a","n","a","g","i","n","g","E","d","i","t","o","r">>,
    webMaster |-> <<"w","e","b","M","a","s","t","e","r">>,
    pubDate |-> <<"p","u","b","D","a","t","e">>,
    lastBuildDate |-> <<"l","a","s","t","B","u","i","l","d","D","a","t","e">>,
    category |-> <<"c","a","t","e","g","o","r","y">>,
    generator |-> <<"g","e","n","e","r","a","t","o","r">>,
    docs |-> <<"d","o","c","s">>,
    cloud |-> <<"c","l","o","u","d">>,
    ttl |-> <<"t","t","l">>,
    image |-> <<"i","m","a","g","e">>,
    rating |-> <<"r","a","t","i","n","g">>,
    textInput |-> <<"t","e","x","t","I","n","p","u","t">>,
    skipHours |-> <<"s","k","i","p","H","o","u","r","s">>,
    skipDays |-> <<"s","k","i","p","D","a","y","s">>,
    item |-> <<"i","t","e","m">>,
    url |-> <<"u","r","l">>,
    width |-> <<"w","i","d","t","h">>,
    height |-> <<"h","e","i","g","h","t">>,
    name |-> <<"n","a","m","e">>,
    hour |-> <<"h","o","u","r">>,
    day |-> <<"d","a","y">>,
    author |-> <<"a","u","t","h","o","r">>,
    comments |-> <<"c","o","m","m","e","n","t","s">>,
    guid |-> <<"g","u","i","d">>,
    enclosure |-> <<"e","n","c","l","o","s","u","r","e">>,
    source |-> <<"s","o","u","r","c","e">>,
    version |-> <<"v","e","r","s","i","o","n">>,
    domain |-> <<"d","o","m","a","i","n">>,
    port |-> <<"p","o","r","t">>,
    path |-> <<"p","a","t","h">>,
    registerProcedure |-> <<"r","e","g","i","s","t","e","r","P","r","o","c","e","d","u","r","e">>,
    protocol |-> <<"p","r","o","t","o","c","o","l">>,
    isPermaLink |-> <<"i","s","P","e","r","m","a","L","i","n","k">>,
    length |-> <<"l","e","n","g","t","h">>,
    type |-> <<"t","y","p","e">>,
    feed |-> <<"f","e","e","d">>,
    wrapper |-> <<"w","r","a","p","p","e","r">>,
    x |-> <<"x">>,
    dc |-> <<"d","c">> ]

AttrOrder ==
  <<"version","domain","port","path","registerProcedure","protocol","isPermaLink","url","length","type">>

QName(node) ==
  IF node.prefix = "" THEN Spell[node.name]
  ELSE Spell[node.prefix] \o <<":">> \o Spell[node.name]

RECURSIVE SerializeAttrs(_, _)
SerializeAttrs(attrs, order) ==
  IF order = <<>> THEN <<>>
  ELSE (IF Head(order) \in DOMAIN attrs
        THEN <<" ">> \o Spell[Head(order)] \o <<"=", "\"">>
             \o attrs[Head(order)].v \o <<"\"">>
        ELSE <<>>)
       \o SerializeAttrs(attrs, Tail(order))

CommentMarkup(body) == <<"<", "!", "-", "-">> \o body \o <<"-", "-", ">">>

RECURSIVE Serialize(_)
RECURSIVE SerializeAll(_)
Serialize(node) ==
  IF node.tag = "text"
  THEN IF node.cdata
       THEN <<"<","!","[","C","D","A","T","A","[">> \o node.s \o <<"]","]",">">>
       ELSE node.s
  ELSE IF node.tag = "comment" THEN CommentMarkup(node.s)
  ELSE <<"<">> \o QName(node) \o SerializeAttrs(node.attrs, AttrOrder) \o <<">">>
       \o SerializeAll(node.kids)
       \o <<"<", "/">> \o QName(node) \o <<">">>

SerializeAll(kids) ==
  IF kids = <<>> THEN <<>>
  ELSE Serialize(Head(kids)) \o SerializeAll(Tail(kids))

(* The BeautifulSoup object: a nameless tag holding the top-level nodes *)
Soup(kids) == El("", "", NoAttrs, kids)

StrInput(lead, pre, tree, post) ==
  [kind |-> "str", lead |-> lead, pre |-> pre, tree |-> tree, post |-> post,
   xml |-> "tree", html |-> Ok(tree)]

(* The text of a textual input *)
TextOf(r) == r.lead \o r.pre \o SerializeAll(r.tree.kids) \o r.post

RECURSIVE FindIn(_, _)
(* Tag.find(name): the first descendant tag, in document order, whose full *)
(* tag name (prefix included) is name.                                     *)
FindIn(kids, name) ==
  IF kids = <<>> THEN None
  ELSE LET k == Head(kids)
       IN  IF k.tag = "el" /\ TagName(k) = [prefix |-> "", local |-> name]
           THEN Some(k)
           ELSE LET below == IF k.tag = "el" THEN FindIn(k.kids, name) ELSE None
                IN  IF ~IsNone(below) THEN below ELSE FindIn(Tail(kids), name)

SoupFind(soup, name) == FindIn(soup.kids, name)

---------------------------------------------------------------------------
(* The stages of parse_rss *)

DoctypeToken == <<"<","!","D","O","C","T","Y","P","E">>
EntityToken == <<"<","!","E","N","T","I","T","Y">>

(* CheckInput searching the stripped text as written, not upper-cased *)
CheckInput_CaseSensitive(r) ==
  IF r.kind # "str"
  THEN Some(TypeError("RSS payload must be provided as a string."))
  ELSE LET stripped == LStrip(TextOf(r))
       IN  IF stripped = <<>>
           THEN Some(RssParseError("Empty RSS payload provided."))
           ELSE IF Contains(stripped, DoctypeToken)
           THEN Some(RssParseError(
                  "Refusing to process RSS feeds that declare a document type."))
           ELSE IF Contains(stripped, EntityToken)
           THEN Some(RssParseError(
                  "Refusing to process RSS feeds that declare custom entities."))
           ELSE None

(* Lines 317-332: None when the input passes, Some(error) when it raises *)
CheckInput(r) ==
  IF r.kind # "str"
  THEN Some(TypeError("RSS payload must be provided as a string."))
  ELSE LET stripped == LStrip(TextOf(r))
           upper == Upper(stripped)
       IN  IF stripped = <<>>
           THEN Some(RssParseError("Empty RSS payload provided."))
           ELSE IF Contains(upper, DoctypeToken)
           THEN Some(RssParseError(
                  "Refusing to process RSS feeds that declare a document type."))
           ELSE IF Contains(upper, EntityToken)
           THEN Some(RssParseError(
                  "Refusing to process RSS feeds that declare custom entities."))
           ELSE None

(* Lines 334-339: the soup, or the error raised; calls counts the          *)
(* BeautifulSoup constructions.  The second construction, with             *)
(* html.parser, stands in the handler of FeatureNotFound: what it raises   *)
(* is not caught by the `except Exception` beside that handler and leaves  *)
(* parse_rss as it is.                                                     *)
LoadSoup(r) ==
  IF r.xml = "tree" THEN [out |-> Ok(r.tree), calls |-> 1]
  ELSE IF r.xml = "FeatureNotFound" THEN [out |-> r.html, calls |-> 2]
  ELSE [out |-> Err(RssParseError("Unable to parse RSS XML document.")),
        calls |-> 1]

(* Lines 341-343 *)
FindRss(soup) ==
  LET rss_tag == SoupFind(soup, "rss")
  IN  IF IsNone(rss_tag) THEN Err(RssParseError("Missing <rss> root element."))
      ELSE Ok(rss_tag.v)

(* Lines 345-346 *)
VersionOf(rss_tag) ==
  LET version_attr == _get_attr(rss_tag, "version")
  IN  IF Falsy(version_attr) THEN Version20 ELSE version_attr.v

(* Lines 348-350 *)
FindChannel(rss_tag) ==
  LET channel_tag == _find_direct_child(rss_tag, "channel")
  IN  IF IsNone(channel_tag)
      THEN Err(RssParseError("Missing <channel> element inside <rss>."))
      ELSE Ok(channel_tag.v)

(* Lines 352-373: the arguments of Channel(...), evaluated in order; the   *)
(* first one that raises ends the call.                                    *)
ChannelArgs(channel_tag) ==
  LET title == _require_child_text(channel_tag, "title")
      link == _require_child_text(channel_tag, "link")
      description == _require_child_text(channel_tag, "description")
  IN  IF ~title.ok THEN Err(title.err)
      ELSE IF ~link.ok THEN Err(link.err)
      ELSE IF ~description.ok THEN Err(description.err)
      ELSE Ok([title |-> title.v,
               link |-> link.v,
               description |-> description.v,
               language |-> _optional_child_text(channel_tag, "language"),
               copyright |-> _optional_child_text(channel_tag, "copyright"),
               managing_editor |-> _optional_child_text(channel_tag, "managingEditor"),
               web_master |-> _optional_child_text(channel_tag, "webMaster"),
               pub_date |-> _optional_child_text(channel_tag, "pubDate"),
               last_build_date |-> _optional_child_text(channel_tag, "lastBuildDate"),
               categories |-> _parse_categories(channel_tag),
               generator |-> _optional_child_text(channel_tag, "generator"),
               docs |-> _optional_child_text(channel_tag, "docs"),
               cloud |-> _parse_cloud(channel_tag),
               ttl |-> _parse_int(_optional_child_text(channel_tag, "ttl")),
               image |-> _parse_image(channel_tag),
               rating |-> _optional_child_text(channel_tag, "rating"),
               text_input |-> _parse_text_input(channel_tag),
               skip_hours |-> _parse_skip_hours(channel_tag),
               skip_days |-> _parse_skip_days(channel_tag),
               items |-> _parse_items(channel_tag)])

RECURSIVE FirstItemError(_)
(* Lines 377-378: the first item whose validate() raises *)
FirstItemError(items) ==
  IF items = <<>> THEN None
  ELSE IF ~IsNone(Item_validate(Head(items))) THEN Item_validate(Head(items))
  ELSE FirstItemError(Tail(items))

(* ValidateFeed calling feed.validate() before the channel's and the     *)
(* items' validators                                                       *)
ValidateFeed_VersionFirst(feed) ==
  IF ~IsNone(RssFeed_validate(feed)) THEN RssFeed_validate(feed)
  ELSE IF ~IsNone(Channel_validate(feed.channel))
  THEN Channel_validate(feed.channel)
  ELSE FirstItemError(feed.channel.items)

(* Lines 376-379: None when every validator returns, else the first error *)
ValidateFeed(feed) ==
  IF ~IsNone(Channel_validate(feed.channel)) THEN Channel_validate(feed.channel)
  ELSE IF ~IsNone(FirstItemError(feed.channel.items))
  THEN FirstItemError(feed.channel.items)
  ELSE RssFeed_validate(feed)

(* Lines 314-380: one call run from start to end on its own: what it     *)
(* returns, or what it raises.                                             *)
parse_rss(r) ==
  IF ~IsNone(CheckInput(r)) THEN Err(CheckInput(r).v)
  ELSE LET soup == LoadSoup(r).out
       IN  IF ~soup.ok THEN soup
           ELSE LET rss_tag == FindRss(soup.v)
                IN  IF ~rss_tag.ok THEN rss_tag
                    ELSE LET version == VersionOf(rss_tag.v)
                             channel_tag == FindChannel(rss_tag.v)
                         IN  IF ~channel_tag.ok THEN channel_tag
                             ELSE LET channel == ChannelArgs(channel_tag.v)
                                  IN  IF ~channel.ok THEN channel
                                      ELSE LET feed == [channel |-> channel.v,
                                                        version |-> version]
                                           IN  IF ~IsNone(ValidateFeed(feed))
                                               THEN Err(ValidateFeed(feed).v)
                                               ELSE Ok(feed)

---------------------------------------------------------------------------
(* The state machine: each caller runs one call of parse_rss on its own    *)
(* input; the calls interleave stage by stage.                             *)

NumCallers == 2

Callers == 1..NumCallers

VARIABLES
  rss,           \* rss[c]: the argument of caller c's call
  pc,            \* pc[c]: where the call stands
  local,         \* local[c]: the call's local variables
  result,        \* result[c]: the value returned, once returned
  error,         \* error[c]: the exception raised, once raised
  engine_calls,  \* engine_calls[c]: BeautifulSoup constructions so far
  date           \* date[f]: the call of the date function f, if any

vars == <<rss, pc, local, result, error, engine_calls, date>>

(* The two date functions; neither is called by parse_rss *)
DateFns == {"parse_rfc822_date", "parse_optional_rfc822_date"}

DateCall(value, at) ==
  [value |-> value, pc |-> at, parsed |-> None, out |-> None, calls |-> 0]

NoDateCalls == [f \in DateFns |-> DateCall(None, "idle")]

NoLocals ==
  [soup |-> None, rss_tag |-> None, version |-> None, channel_tag |-> None,
   channel |-> None, feed |-> None]

(* The exception leaves the frame: the locals are gone, nothing is returned *)
Raise(c, e) ==
  /\ pc' = [pc EXCEPT ![c] = "failed"]
  /\ error' = [error EXCEPT ![c] = Some(e)]
  /\ local' = [local EXCEPT ![c] = NoLocals]
  /\ UNCHANGED <<rss, result, date>>

Advance(c, to, locals) ==
  /\ pc' = [pc EXCEPT ![c] = to]
  /\ local' = [local EXCEPT ![c] = locals]
  /\ UNCHANGED <<rss, result, error, date>>

InputCheck(c) ==
  /\ pc[c] = "start"
  /\ UNCHANGED engine_calls
  /\ LET e == CheckInput(rss[c])
     IN  IF ~IsNone(e) THEN Raise(c, e.v)
         ELSE Advance(c, "checked", local[c])

(* LoadDocument keeping the soup in one module-level variable that every *)
(* call in progress reads                                                  *)
LoadDocument_SharedSoup(c) ==
  /\ pc[c] = "checked"
  /\ LET l == LoadSoup(rss[c])
     IN  /\ engine_calls' = [engine_calls EXCEPT ![c] = @ + l.calls]
         /\ IF ~l.out.ok THEN Raise(c, l.out.err)
            ELSE /\ pc' = [pc EXCEPT ![c] = "loaded"]
                 /\ local' = [k \in Callers |->
                                IF k = c \/ pc[k] = "loaded"
                                THEN [local[k] EXCEPT !.soup = Some(l.out.v)]
                                ELSE local[k]]
                 /\ UNCHANGED <<rss, result, error, date>>

LoadDocument(c) ==
  /\ pc[c] = "checked"
  /\ LET l == LoadSoup(rss[c])
     IN  /\ engine_calls' = [engine_calls EXCEPT ![c] = @ + l.calls]
         /\ IF ~l.out.ok THEN Raise(c, l.out.err)
            ELSE Advance(c, "loaded", [local[c] EXCEPT !.soup = Some(l.out.v)])

LocateRss(c) ==
  /\ pc[c] = "loaded"
  /\ UNCHANGED engine_calls
  /\ LET f == FindRss(local[c].soup.v)
     IN  IF ~f.ok THEN Raise(c, f.err)
         ELSE Advance(c, "rss", [local[c] EXCEPT !.rss_tag = Some(f.v)])

LocateChannel(c) ==
  /\ pc[c] = "rss"
  /\ UNCHANGED engine_calls
  /\ LET version == VersionOf(local[c].rss_tag.v)
         f == FindChannel(local[c].rss_tag.v)
     IN  IF ~f.ok THEN Raise(c, f.err)
         ELSE Advance(c, "channel",
                [local[c] EXCEPT !.version = Some(version),
                                 !.channel_tag = Some(f.v)])

ExtractFields(c) ==
  /\ pc[c] = "channel"
  /\ UNCHANGED engine_calls
  /\ LET a == ChannelArgs(local[c].channel_tag.v)
     IN  IF ~a.ok THEN Raise(c, a.err)
         ELSE Advance(c, "extracted", [local[c] EXCEPT !.channel = Some(a.v)])

(* Lines 352 and 375: Channel(...) and RssFeed(channel=channel, version=version) *)
Construct(c) ==
  /\ pc[c] = "extracted"
  /\ UNCHANGED engine_calls
  /\ Advance(c, "constructed",
       [local[c] EXCEPT !.feed = Some([channel |-> local[c].channel.v,
                                       version |-> local[c].version.v])])

Validate(c) ==
  /\ pc[c] = "constructed"
  /\ UNCHANGED engine_calls
  /\ LET e == ValidateFeed(local[c].feed.v)
     IN  IF ~IsNone(e) THEN Raise(c, e.v)
         ELSE Advance(c, "validated", local[c])

Return(c) ==
  /\ pc[c] = "validated"
  /\ pc' = [pc EXCEPT ![c] = "done"]
  /\ result' = [result EXCEPT ![c] = local[c].feed]
  /\ local' = [local EXCEPT ![c] = NoLocals]
  /\ UNCHANGED <<rss, error, engine_calls, date>>

Next ==
  \E c \in Callers :
    \/ InputCheck(c)
    \/ LoadDocument(c)
    \/ LocateRss(c)
    \/ LocateChannel(c)
    \/ ExtractFields(c)
    \/ Construct(c)
    \/ Validate(c)
    \/ Return(c)

(* Caller 1 and caller 2 call parse_rss on the two inputs of one of the    *)
(* pairs; the other callers are idle.                                      *)
InitPair(pairs) ==
  /\ \E p \in pairs : rss = [c \in Callers |-> IF c = 1 THEN p[1] ELSE p[2]]
  /\ pc = [c \in Callers |-> IF c \in {1, 2} THEN "start" ELSE "idle"]
  /\ local = [c \in Callers |-> NoLocals]
  /\ result = [c \in Callers |-> None]
  /\ error = [c \in Callers |-> None]
  /\ engine_calls = [c \in Callers |-> 0]
  /\ date = NoDateCalls

(* Every caller calls parse_rss, each on one of the inputs *)
InitAll(inputs) ==
  /\ rss \in [Callers -> inputs]
  /\ pc = [c \in Callers |-> "start"]
  /\ local = [c \in Callers |-> NoLocals]
  /\ result = [c \in Callers |-> None]
  /\ error = [c \in Callers |-> None]
  /\ engine_calls = [c \in Callers |-> 0]
  /\ date = NoDateCalls

(* Caller 1 calls parse_rss on one of the inputs; the other callers are idle *)
InitOne(inputs) ==
  /\ \E r \in inputs : rss = [c \in Callers |-> r]
  /\ pc = [c \in Callers |-> IF c = 1 THEN "start" ELSE "idle"]
  /\ local = [c \in Callers |-> NoLocals]
  /\ result = [c \in Callers |-> None]
  /\ error = [c \in Callers |-> None]
  /\ engine_calls = [c \in Callers |-> 0]
  /\ date = NoDateCalls

---------------------------------------------------------------------------
(* The date functions.  email.utils.parsedate_to_datetime is library code: *)
(* a date value carries its text and what the library does with that text. *)

RssDateError(msg) == [exc |-> "RssDateError", msg |-> msg]

(* f"Invalid RSS date string: {value!r}" *)
InvalidDate(value) ==
  [exc |-> "RssDateError", msg |-> "Invalid RSS date string: ", arg |-> value.text]

(* A datetime; tzinfo is None for a naive one, else the offset in minutes *)
DateTime(year, month, day, hour, minute, second, tzinfo) ==
  [year |-> year, month |-> month, day |-> day, hour |-> hour,
   minute |-> minute, second |-> second, tzinfo |-> tzinfo]

Utc == Some(0)

(* The call of f becomes call; parse_rss is not involved *)
DateStep(f, call) ==
  /\ date' = [date EXCEPT ![f] = call]
  /\ UNCHANGED <<rss, pc, local, result, error, engine_calls>>

DateRaise(f, e) ==
  DateStep(f, [date[f] EXCEPT !.pc = "failed", !.out = Err(e), !.parsed = None])

(* Lines 309-311: parse_optional_rfc822_date returns None for None, and    *)
(* otherwise calls parse_rfc822_date.                                      *)
OptionalCheck(f) ==
  /\ date[f].pc = "called"
  /\ IF IsNone(date[f].value)
     THEN DateStep(f, [date[f] EXCEPT !.pc = "done", !.out = Ok(None)])
     ELSE DateStep(f, [date[f] EXCEPT !.pc = "start"])

(* Lines 293-294 *)
EmptyCheck(f) ==
  /\ date[f].pc = "start"
  /\ IF IsNone(date[f].value) \/ date[f].value.v.text = <<>>
     THEN DateRaise(f, RssDateError("RSS date strings must be non-empty."))
     ELSE DateStep(f, [date[f] EXCEPT !.pc = "nonempty"])

(* Lines 295-298: TypeError and ValueError become RssDateError, any other  *)
(* exception of the library leaves the function as it is.                  *)
ParseToDatetime(f) ==
  /\ date[f].pc = "nonempty"
  /\ LET lib == date[f].value.v.lib
         called == [date[f] EXCEPT !.calls = @ + 1]
     IN  IF lib.ok
         THEN DateStep(f, [called EXCEPT !.pc = "parsed", !.parsed = lib.v])
         ELSE IF lib.err.exc \in {"TypeError", "ValueError"}
         THEN DateStep(f, [called EXCEPT !.pc = "failed",
                                         !.out = Err(InvalidDate(date[f].value.v))])
         ELSE DateStep(f, [called EXCEPT !.pc = "failed", !.out = Err(lib.err)])

(* Lines 299-300 *)
NoneCheck(f) ==
  /\ date[f].pc = "parsed"
  /\ IF IsNone(date[f].parsed)
     THEN DateRaise(f, InvalidDate(date[f].value.v))
     ELSE DateStep(f, [date[f] EXCEPT !.pc = "some"])

(* Lines 301-303 *)
DefaultZone(f) ==
  /\ date[f].pc = "some"
  /\ LET parsed == date[f].parsed.v
         zoned == IF IsNone(parsed.tzinfo)
                  THEN [parsed EXCEPT !.tzinfo = Utc]
                  ELSE parsed
     IN  DateStep(f, [date[f] EXCEPT !.pc = "done", !.out = Ok(Some(zoned)),
                                     !.parsed = None])

NextDate ==
  \E f \in DateFns :
    \/ OptionalCheck(f)
    \/ EmptyCheck(f)
    \/ ParseToDatetime(f)
    \/ NoneCheck(f)
    \/ DefaultZone(f)

---------------------------------------------------------------------------
(* The error kinds of the specification's taxonomy, from what is raised *)

Kind(e) ==
  IF e.exc = "TypeError" THEN "InputError"
  ELSE IF e.exc = "ValueError" THEN "ValidationError"
  ELSE IF e.exc # "RssParseError" THEN "Uncategorized"
  ELSE IF e.msg \in {"Empty RSS payload provided.",
                     "Refusing to process RSS feeds that declare a document type.",
                     "Refusing to process RSS feeds that declare custom entities."}
  THEN "InputError"
  ELSE IF e.msg = "Unable to parse RSS XML document." THEN "XmlSyntaxError"
  ELSE "MissingFieldError"

Terminal(c) == pc[c] \in {"done", "failed"}

---------------------------------------------------------------------------
(* Building inputs *)

Leaf(name, s) == El("", name, NoAttrs, <<Txt(s)>>)

Empty(name) == El("", name, NoAttrs, <<>>)

Skeleton ==
  <<Leaf("title", <<"F">>), Leaf("link", <<"u">>), Leaf("description", <<"d">>)>>

Channel(kids) == El("", "channel", NoAttrs, kids)

Rss(version, kids) == El("", "rss", [version |-> PyStr(version)], kids)

Feed(kids) == Soup(<<Rss(Version20, <<Channel(kids)>>)>>)

Doc(tree) == StrInput(<<>>, <<>>, tree, <<>>)

NotAString == [StrInput(<<>>, <<>>, Soup(<<>>), <<>>) EXCEPT !.kind = "bytes"]

---------------------------------------------------------------------------
(* Inputs for the input checks: leading whitespace, a declaration or a     *)
(* comment before or after the root element, or a CDATA title.             *)

Leads == { <<>>, <<" ">>, <<"\n", "\t">>, <<"\r", "\n">> }

DeclTokens ==
  { <<"<","!","D","O","C","T","Y","P","E">>,
    <<"<","!","d","o","c","t","y","p","e">>,
    <<"<","!","D","o","c","T","y","p","e">>,
    <<"<","!","E","N","T","I","T","Y">>,
    <<"<","!","e","n","t","i","t","y">>,
    <<"<","!","E","n","t","i","t","y">>,
    <<"<","!","e","n","t","U+0131","t","y">> }

Declaration(tok) == tok \o <<" ", "r", ">">>

BenignMarkup ==
  { <<>>,
    CommentMarkup(<<"D","O","C","T","Y","P","E">>),
    CommentMarkup(<<"<","!"," ","e","n","t","i","t","y">>) }

Markup ==
  BenignMarkup \cup { Declaration(t) : t \in DeclTokens }
               \cup { CommentMarkup(t) : t \in DeclTokens }

PlainTrees ==
  { Feed(Skeleton),
    Soup(<<El("", "feed", NoAttrs, Skeleton)>>),
    Soup(<<>>) }

CDataTrees ==
  { Feed(<<El("", "title", NoAttrs, <<CData(t)>>), Skeleton[2], Skeleton[3]>>) :
      t \in DeclTokens \cup { <<"<","!","D","O","C","T","Y","P">> } }

InputsC1 ==
  { StrInput(lead, m, tree, <<>>) : lead \in Leads, m \in Markup, tree \in PlainTrees }
  \cup { StrInput(lead, <<>>, tree, m) : lead \in Leads, m \in Markup, tree \in PlainTrees }
  \cup { StrInput(lead, <<>>, tree, <<>>) : lead \in Leads, tree \in CDataTrees }
  \cup { NotAString }

InitC1 == InitOne(InputsC1)

SpecC1 == InitC1 /\ [][Next]_vars

(* Case folding as the claim words it: the text lower-cased *)
FoldedTokens ==
  { <<"<","!","d","o","c","t","y","p","e">>, <<"<","!","e","n","t","i","t","y">> }

DeclaresTypeOrEntity(r) ==
  /\ r.kind = "str"
  /\ \E t \in FoldedTokens : Contains(Lower(LStrip(TextOf(r))), t)

(* C1: a textual input whose trimmed, case-folded text contains <!DOCTYPE  *)
(* or <!ENTITY fails with an InputError, whatever the rest of the document *)
(* is; the XML engine is never invoked on it, the call never reaches the   *)
(* loaded stage and returns no feed.                                       *)
C1_UnsafeInputRejected ==
  \A c \in Callers :
    DeclaresTypeOrEntity(rss[c]) =>
      /\ pc[c] \in {"idle", "start", "failed"}
      /\ engine_calls[c] = 0
      /\ IsNone(local[c].soup)
      /\ IsNone(result[c])
      /\ pc[c] = "failed" => Kind(error[c].v) = "InputError"

(* A well-formed feed, followed by a lower-case declaration, was rejected *)
C1_Witness ==
  /\ pc[1] = "failed"
  /\ DeclaresTypeOrEntity(rss[1])
  /\ rss[1].tree = Feed(Skeleton)
  /\ rss[1].post = Declaration(<<"<","!","e","n","t","i","t","y">>)
  /\ Kind(error[1].v) = "InputError"

---------------------------------------------------------------------------
(* Inputs for the document structure: where <rss> and <channel> sit *)

Wrapper(kids) == El("", "wrapper", NoAttrs, kids)

Prefixed(prefix, node) == [node EXCEPT !.prefix = prefix]

Version091 == <<"0", ".", "9", "1">>

Structures(v, ch) ==
  { Soup(<<El("", "feed", NoAttrs, <<ch>>)>>),
    Soup(<<Prefixed("x", Rss(v, <<ch>>))>>),
    Soup(<<Rss(v, <<>>)>>),
    Soup(<<Rss(v, <<Wrapper(<<ch>>)>>)>>),
    Soup(<<Rss(v, <<El("", "item", NoAttrs, <<ch>>)>>)>>),
    Soup(<<Rss(v, ch.kids)>>),
    Soup(<<Rss(v, <<ch>>)>>),
    Soup(<<Rss(v, <<Prefixed("x", ch)>>)>>),
    Soup(<<Wrapper(<<Rss(v, <<ch>>)>>)>>),
    Soup(<<Rss(v, <<Wrapper(<<ch>>), ch>>)>>),
    Soup(<<Rss(v, <<Txt(<<" ">>), Leaf("title", <<"t">>), ch>>)>>),
    Soup(<<Wrapper(<<Rss(v, <<>>), Rss(v, <<ch>>)>>)>>) }

InputsC2 ==
  { Doc(tree) :
      tree \in UNION { Structures(v, Channel(kids)) :
                         v \in {Version20, Version091},
                         kids \in {Skeleton, Tail(Skeleton)} } }
  \cup { Doc(Soup(<<Comment(<<"x">>)>>)) }

InitC2 == InitOne(InputsC2)

SpecC2 == InitC2 /\ [][Next]_vars

(* The input checks are behind the call *)
PassedChecks(c) ==
  /\ pc[c] \notin {"idle", "start"}
  /\ pc[c] = "failed" => Kind(error[c].v) # "InputError"

IsNamed(node, name) == node.tag = "el" /\ node.prefix = "" /\ node.name = name

RECURSIVE Elements(_)
(* Every element of a forest, parents before children, in document order *)
Elements(kids) ==
  IF kids = <<>> THEN <<>>
  ELSE LET k == kids[1]
       IN  (IF k.tag = "el" THEN <<k>> \o Elements(k.kids) ELSE <<>>)
           \o Elements(SubSeq(kids, 2, Len(kids)))

HasRss(r) == \E i \in 1..Len(Elements(r.tree.kids)) :
                IsNamed(Elements(r.tree.kids)[i], "rss")

(* The document's <rss> element: the first one in document order *)
RssOf(r) ==
  LET es == Elements(r.tree.kids)
      first == CHOOSE i \in 1..Len(es) :
                 /\ IsNamed(es[i], "rss")
                 /\ \A j \in 1..(i - 1) : ~IsNamed(es[j], "rss")
  IN  es[first]

(* The positions of node's direct children with the local name *)
DirectAt(node, name) ==
  { i \in 1..Len(node.kids) : node.kids[i].tag = "el" /\ node.kids[i].name = name }

HasDirect(node, name) == DirectAt(node, name) # {}

---------------------------------------------------------------------------
(* Inputs for the channel skeleton: each of title, link and description is *)
(* absent, empty, blank, padded, repeated, mixed content, prefixed or      *)
(* holding a comment, with or without same-named elements nested in        *)
(* <image>, <textInput>, <item>.                                           *)

FieldShapes(f) ==
  << <<>>,
     <<Empty(f)>>,
     <<Leaf(f, <<" ", "U+00A0">>)>>,
     <<Leaf(f, <<" ", "a", " ">>)>>,
     <<Leaf(f, <<"a">>), Leaf(f, <<"b">>)>>,
     <<Empty(f), Leaf(f, <<"b">>)>>,
     <<El("", f, NoAttrs, <<Txt(<<"a", " ">>), Wrapper(<<Txt(<<"b">>)>>)>>)>>,
     <<Prefixed("dc", Leaf(f, <<"p">>)), Leaf(f, <<"q">>)>>,
     <<El("", f, NoAttrs, <<Comment(<<"x">>)>>)>>,
     <<El("", f, NoAttrs, <<Txt(<<"a">>), Comment(<<"x">>)>>)>>,
     <<El("", f, NoAttrs, <<Wrapper(<<Comment(<<" ", "y">>)>>)>>)>> >>

NestedSameNames ==
  <<El("", "image", NoAttrs,
       <<Leaf("url", <<"i">>), Leaf("title", <<"i">>), Leaf("link", <<"i">>),
         Leaf("description", <<"i">>)>>),
    El("", "textInput", NoAttrs,
       <<Leaf("title", <<"t">>), Leaf("description", <<"t">>),
         Leaf("name", <<"t">>), Leaf("link", <<"t">>)>>),
    El("", "item", NoAttrs,
       <<Leaf("title", <<"n">>), Leaf("link", <<"n">>),
         Leaf("description", <<"n">>)>>)>>

InputsC3 ==
  { Doc(Feed(nested \o FieldShapes("description")[d] \o FieldShapes("title")[t]
             \o FieldShapes("link")[l])) :
      t \in DOMAIN FieldShapes("title"), l \in 1..5, d \in 1..5,
      nested \in {<<>>, NestedSameNames} }

InitC3 == InitOne(InputsC3)

SpecC3 == InitC3 /\ [][Next]_vars

Least(S) == CHOOSE i \in S : \A j \in S : i <= j

(* The first direct child of node with the local name *)
FirstDirect(node, name) == node.kids[Least(DirectAt(node, name))]

HasChannel(r) ==
  r.kind = "str" /\ r.xml = "tree" /\ HasRss(r) /\ HasDirect(RssOf(r), "channel")

ChannelOf(r) == FirstDirect(RssOf(r), "channel")

(* The trimmed text of an element *)
TrimmedText(node) == Strip(GetTextAll(node))

Lacks(ch, f) == ~HasDirect(ch, f) \/ TrimmedText(FirstDirect(ch, f)) = <<>>

RequiredNames == <<"title", "link", "description">>

LacksRequired(ch) == \E i \in 1..3 : Lacks(ch, RequiredNames[i])

FirstLacking(ch) == RequiredNames[Least({ i \in 1..3 : Lacks(ch, RequiredNames[i]) })]

(* C3: when <channel> has no direct child title, link or description, or   *)
(* the first such child's trimmed text is empty, the call fails with a     *)
(* MissingFieldError naming the element (the first lacking one in the      *)
(* order title, link, description); same-named elements nested deeper do   *)
(* not count.  Otherwise the returned channel's title, link and            *)
(* description are the trimmed text of the first matching direct child.    *)
C3_RequiredText ==
  \A c \in Callers :
    (PassedChecks(c) /\ HasChannel(rss[c])) =>
      LET ch == ChannelOf(rss[c])
      IN  IF LacksRequired(ch)
          THEN /\ pc[c] \in {"checked", "loaded", "rss", "channel", "failed"}
               /\ IsNone(result[c])
               /\ pc[c] = "failed" =>
                    /\ Kind(error[c].v) = "MissingFieldError"
                    /\ error[c].v.msg = "Missing required <" \o FirstLacking(ch)
                                         \o "> element in RSS channel."
          ELSE /\ pc[c] = "failed" => Kind(error[c].v) # "MissingFieldError"
               /\ pc[c] = "done" =>
                    /\ result[c].v.channel.title = TrimmedText(FirstDirect(ch, "title"))
                    /\ result[c].v.channel.link = TrimmedText(FirstDirect(ch, "link"))
                    /\ result[c].v.channel.description =
                         TrimmedText(FirstDirect(ch, "description"))

---------------------------------------------------------------------------
(* Inputs for the items: up to MaxItems <item> elements, each of one shape *)
(* and carrying its position as its <link>, with other elements between.   *)

MaxItems == 3

ItemShape(shape, p) ==
  LET mark == Leaf("link", <<Digits[p + 1]>>)
  IN  CASE shape = 1 -> El("", "item", NoAttrs, <<Leaf("title", <<"a">>), mark>>)
        [] shape = 2 -> El("", "item", NoAttrs, <<mark, Leaf("description", <<"b">>)>>)
        [] shape = 3 -> El("", "item", NoAttrs,
                           <<Leaf("title", <<"a">>), Leaf("description", <<"b">>), mark>>)
        [] shape = 4 -> El("", "item", NoAttrs, <<mark>>)
        [] shape = 5 -> El("", "item", NoAttrs, <<>>)
        [] shape = 6 -> El("", "item", NoAttrs, <<Empty("title"), mark>>)
        [] shape = 7 -> El("", "item", NoAttrs,
                           <<Wrapper(<<Leaf("title", <<"a">>)>>), mark>>)
        [] shape = 8 -> El("x", "item", NoAttrs, <<Leaf("title", <<"a">>), mark>>)

RECURSIVE ItemElements(_, _)
ItemElements(shapes, p) ==
  IF shapes = <<>> THEN <<>>
  ELSE <<ItemShape(Head(shapes), p), Leaf("category", <<"c">>)>>
       \o ItemElements(Tail(shapes), p + 1)

ShapeLists == UNION { [1..n -> 1..8] : n \in 0..MaxItems }

InputsC4 == { Doc(Feed(Skeleton \o ItemElements(shapes, 1))) : shapes \in ShapeLists }

InitC4 == InitOne(InputsC4)

SpecC4 == InitC4 /\ [][Next]_vars

IsItem(k) == k.tag = "el" /\ k.name = "item"

HasTitleOrDescription(item) == HasDirect(item, "title") \/ HasDirect(item, "description")

(* The <item> children that have a title or a description, in document order *)
ItemsWithContent(ch) ==
  SelectSeq(ch.kids, LAMBDA k : IsItem(k) /\ HasTitleOrDescription(k))

(* What identifies an element's item in the result: its link, and which of *)
(* title and description it carries                                        *)
ItemKey(item) ==
  [link |-> IF HasDirect(item, "link")
            THEN Some(TrimmedText(FirstDirect(item, "link"))) ELSE None,
   title |-> HasDirect(item, "title"),
   description |-> HasDirect(item, "description")]

ResultKey(item) ==
  [link |-> item.link, title |-> ~IsNone(item.title),
   description |-> ~IsNone(item.description)]

(* C4: channel.items is the document-order subsequence of the channel's    *)
(* direct <item> children that have a <title> or a <description>: an item  *)
(* lacking both is left out without an error, every other item is there    *)
(* once, in its original relative order.                                   *)
C4_ItemsSubsequence ==
  \A c \in Callers :
    (PassedChecks(c) /\ HasChannel(rss[c]) /\ ~LacksRequired(ChannelOf(rss[c]))) =>
      /\ pc[c] # "failed"
      /\ pc[c] = "done" =>
           LET kept == ItemsWithContent(ChannelOf(rss[c]))
               items == result[c].v.channel.items
           IN  /\ Len(items) = Len(kept)
               /\ \A i \in 1..Len(kept) : ResultKey(items[i]) = ItemKey(kept[i])

(* Of three items the middle one, lacking both, was left out *)
C4_Witness ==
  /\ pc[1] = "done"
  /\ Len(SelectSeq(ChannelOf(rss[1]).kids, IsItem)) = 3
  /\ Len(result[1].v.channel.items) = 2
  /\ result[1].v.channel.items[1].link = Some(<<"1">>)
  /\ result[1].v.channel.items[2].link = Some(<<"3">>)

---------------------------------------------------------------------------
(* Inputs for the image: a channel with an <image> of every width, height  *)
(* and completeness, parsed beside the same channel without the <image>.   *)

Attrs(names, values) == [a \in { names[i] : i \in 1..Len(names) } |->
                           PyStr(values[CHOOSE i \in 1..Len(names) : names[i] = a])]

CloudAttrNames == <<"domain", "port", "path", "registerProcedure", "protocol">>

CloudWith(port, protocol) ==
  El("", "cloud",
     Attrs(CloudAttrNames, <<<<"h">>, port, <<"/">>, <<"n">>, protocol>>), <<>>)

ProtoXmlRpc == <<"x","m","l","-","r","p","c">>

RichChannel ==
  Skeleton \o
  <<Leaf("language", <<"e", "n">>),
    CloudWith(<<"8", "0">>, ProtoXmlRpc),
    Leaf("ttl", <<"6", "0">>),
    El("", "item", NoAttrs, <<Leaf("title", <<"a">>), Leaf("link", <<"1">>)>>)>>

ImageCores ==
  { <<Leaf("url", <<"i">>), Leaf("title", <<"j">>), Leaf("link", <<"k">>)>>,
    <<Empty("url"), Leaf("title", <<"j">>), Leaf("link", <<"k">>)>>,
    <<Leaf("title", <<"j">>), Leaf("link", <<"k">>)>> }

WidthTexts ==
  { <<"8","8">>, <<"1","4","4">>, <<"1","4","5">>, <<"0">>, <<"-","1">>,
    <<"x">>, <<" ","2","0","0"," ">> }

HeightTexts == { <<"4","0","0">>, <<"4","0","1">>, <<"y">> }

Dimension(name, texts) == { <<>> } \cup { <<Leaf(name, t)>> : t \in texts }

Images ==
  { El("", "image", NoAttrs, core \o w \o h) :
      core \in ImageCores,
      w \in Dimension("width", WidthTexts),
      h \in Dimension("height", HeightTexts) }

ChannelRests == { Skeleton, RichChannel, Tail(Skeleton) }

PairsC5 ==
  UNION { { <<Doc(Feed(<<img>> \o rest)), Doc(Feed(rest))>>,
            <<Doc(Feed(rest \o <<img>>)), Doc(Feed(rest))>> } :
          img \in Images, rest \in ChannelRests }

InitC5 == InitPair(PairsC5)

SpecC5 == InitC5 /\ [][Next]_vars

HasImage(r) == HasChannel(r) /\ HasDirect(ChannelOf(r), "image")

ImageOf(r) == FirstDirect(ChannelOf(r), "image")

(* The number an image's <width> or <height> holds, if it holds one *)
DimensionOf(img, name) ==
  IF HasDirect(img, name) THEN PyInt(TrimmedText(FirstDirect(img, name))) ELSE None

Oversize(img) ==
  \/ ~IsNone(DimensionOf(img, "width")) /\ DimensionOf(img, "width").v > 144
  \/ ~IsNone(DimensionOf(img, "height")) /\ DimensionOf(img, "height").v > 400

Complete(img) ==
  HasDirect(img, "url") /\ HasDirect(img, "title") /\ HasDirect(img, "link")

(* C5: caller 1 parses a channel with an <image>, caller 2 the same        *)
(* document without it.  When the image's width exceeds 144 or its height  *)
(* 400 the two calls end alike: the same failure, or the same feed, with   *)
(* channel.image absent.  An image within the limits that has url, title   *)
(* and link is kept, a missing or unparseable width or height taking the   *)
(* default 88 or 31.                                                       *)
C5_OversizeImageDropped ==
  (HasImage(rss[1]) /\ pc[2] # "idle" /\ Terminal(1)) =>
    LET img == ImageOf(rss[1])
    IN  IF Oversize(img)
        THEN /\ pc[1] = "done" => IsNone(result[1].v.channel.image)
             /\ Terminal(2) =>
                  /\ pc[1] = pc[2]
                  /\ error[1] = error[2]
                  /\ result[1] = result[2]
        ELSE (Complete(img) /\ pc[1] = "done") =>
               /\ ~IsNone(result[1].v.channel.image)
               /\ IsNone(DimensionOf(img, "width")) =>
                    result[1].v.channel.image.v.width = 88
               /\ IsNone(DimensionOf(img, "height")) =>
                    result[1].v.channel.image.v.height = 31

(* A complete image of height 401 was dropped, and the channel came back   *)
(* as it does without the image                                            *)
C5_Witness ==
  /\ pc[1] = "done" /\ pc[2] = "done"
  /\ HasImage(rss[1])
  /\ Complete(ImageOf(rss[1]))
  /\ DimensionOf(ImageOf(rss[1]), "height") = Some(401)
  /\ DimensionOf(ImageOf(rss[1]), "width") = Some(144)
  /\ IsNone(result[1].v.channel.image)
  /\ ~IsNone(result[1].v.channel.cloud)
  /\ result[1] = result[2]

---------------------------------------------------------------------------
(* Inputs for the cloud: every spelling of the protocol, integer and       *)
(* non-integer ports, and a cloud that lacks an attribute.                 *)

ProtocolTexts ==
  { <<"H","T","T","P","-","P","O","S","T">>,
    <<"h","t","t","p","-","p","o","s","t">>,
    <<"H","t","t","p","-","P","o","s","t">>,
    <<"X","M","L","-","R","P","C">>,
    <<"x","m","l","-","r","p","c">>,
    <<"X","m","l","-","R","p","c">>,
    <<"S","O","A","P"," ","1",".","1">>,
    <<"s","o","a","p"," ","1",".","1">>,
    <<"S","o","a","p"," ","1",".","1">>,
    <<"s","o","a","p">>,
    <<"S","O","A","P">>,
    <<"f","t","p">>,
    <<" ","x","m","l","-","r","p","c"," ">>,
    <<>> }

PortTexts == { <<"8","0">>, <<" ","8","0"," ">>, <<"+","8","0">>, <<"x">>, <<>> }

Clouds ==
  { CloudWith(port, protocol) : port \in PortTexts, protocol \in ProtocolTexts }
  \cup { El("", "cloud",
            Attrs(<<"domain", "port", "path", "protocol">>,
                  <<<<"h">>, <<"8","0">>, <<"/">>, protocol>>), <<>>) :
           protocol \in ProtocolTexts }

InputsC6 == { Doc(Feed(Skeleton \o <<cloud>>)) : cloud \in Clouds }

InitC6 == InitOne(InputsC6)

SpecC6 == InitC6 /\ [][Next]_vars

HasCloud(r) == HasChannel(r) /\ HasDirect(ChannelOf(r), "cloud")

CloudOf(r) == FirstDirect(ChannelOf(r), "cloud")

(* The cloud carries all five attributes and its port is an integer *)
WellFormedCloud(cloud) ==
  /\ \A i \in 1..Len(CloudAttrNames) : CloudAttrNames[i] \in DOMAIN cloud.attrs
  /\ ~IsNone(PyInt(cloud.attrs["port"].v))

CanonicalProtocols ==
  { <<"H","T","T","P","-","P","O","S","T">>, <<"X","M","L","-","R","P","C">>, <<"S","O","A","P"," ","1",".","1">> }

AcceptedSpellings ==
  { <<"H","T","T","P","-","P","O","S","T">>,
    <<"h","t","t","p","-","p","o","s","t">>,
    <<"X","M","L","-","R","P","C">>,
    <<"x","m","l","-","r","p","c">>,
    <<"S","O","A","P"," ","1",".","1">>,
    <<"s","o","a","p">> }

(* C6 as claimed: with all five attributes and an integer port,            *)
(* channel.cloud is present exactly when the protocol is HTTP-POST,        *)
(* XML-RPC or SOAP 1.1 in any letter case, and the call does not fail.     *)
C6_AnyLetterCase ==
  \A c \in Callers :
    (PassedChecks(c) /\ HasCloud(rss[c]) /\ WellFormedCloud(CloudOf(rss[c]))) =>
      /\ pc[c] # "failed"
      /\ pc[c] = "done" =>
           (~IsNone(result[c].v.channel.cloud)
              <=> Upper(Strip(CloudOf(rss[c]).attrs["protocol"].v)) \in CanonicalProtocols)

(* C6 amended: with all five attributes and an integer port, channel.cloud *)
(* is present exactly when the trimmed protocol is spelled HTTP-POST,      *)
(* http-post, XML-RPC, xml-rpc, SOAP 1.1 or soap; with any other value,    *)
(* ftp or another letter case of these included, channel.cloud is absent,  *)
(* and in both cases the call does not fail.                               *)
C6_ExactSpellings ==
  \A c \in Callers :
    (PassedChecks(c) /\ HasCloud(rss[c]) /\ WellFormedCloud(CloudOf(rss[c]))) =>
      /\ pc[c] # "failed"
      /\ pc[c] = "done" =>
           LET cloud == result[c].v.channel.cloud
               protocol == Strip(CloudOf(rss[c]).attrs["protocol"].v)
           IN  /\ ~IsNone(cloud) <=> protocol \in AcceptedSpellings
               /\ ~IsNone(cloud) =>
                    /\ cloud.v.protocol = protocol
                    /\ Some(cloud.v.port) = PyInt(CloudOf(rss[c]).attrs["port"].v)

(* A cloud with protocol Http-Post, all attributes and port 80 was dropped *)
(* and the feed returned                                                   *)
C6_Witness ==
  /\ pc[1] = "done"
  /\ HasCloud(rss[1])
  /\ WellFormedCloud(CloudOf(rss[1]))
  /\ CloudOf(rss[1]).attrs["protocol"].v = <<"H","t","t","p","-","P","o","s","t">>
  /\ IsNone(result[1].v.channel.cloud)

---------------------------------------------------------------------------
(* Inputs for skipHours and skipDays: every short list of valid and        *)
(* invalid entries, and long lists, up to MaxHours hours and MaxDays days, *)
(* of distinct valid entries with or without one invalid entry at either   *)
(* end.                                                                    *)

MaxHours == 26
MaxDays == 9

HourTexts ==
  { <<"0">>, <<"5">>, <<"2","3">>, <<"2","4">>, <<"-","1">>, <<"x">>, <<>>,
    <<"\r","7","U+00A0">> }

DayTexts ==
  { <<"M","o","n","d","a","y">>, <<"m","o","n","d","a","y">>, <<"S","U","N","D","A","Y">>, <<"U+00A0","F","r","i","d","a","y","\r">>, <<"F","u","n","d","a","y">>, <<>> }

WeekdayList ==
  << <<"M","o","n","d","a","y">>,
     <<"T","u","e","s","d","a","y">>,
     <<"W","e","d","n","e","s","d","a","y">>,
     <<"T","h","u","r","s","d","a","y">>,
     <<"F","r","i","d","a","y">>,
     <<"S","a","t","u","r","d","a","y">>,
     <<"S","u","n","d","a","y">> >>

(* The decimal text of n, 0 <= n < 100 *)
TwoDigits(n) ==
  IF n < 10 THEN <<Digits[n + 1]>> ELSE <<Digits[(n \div 10) + 1], Digits[(n % 10) + 1]>>

Entries(name, texts) == [i \in 1..Len(texts) |-> Leaf(name, texts[i])]

ShortLists(texts) == UNION { [1..n -> texts] : n \in 0..2 }

(* n distinct valid entries, alone or with the invalid one first or last *)
LongLists(valid, invalid, n) ==
  { valid, <<invalid>> \o SubSeq(valid, 1, n - 1), SubSeq(valid, 1, n - 1) \o <<invalid>> }

LongHourLists ==
  UNION { LongLists([i \in 1..n |-> TwoDigits((i - 1) % 24)], <<"2","5">>, n) :
            n \in 23..MaxHours }

LongDayLists ==
  UNION { LongLists([i \in 1..n |-> WeekdayList[((i - 1) % 7) + 1]],
                    <<"F","u","n","d","a","y">>, n) :
            n \in 6..MaxDays }

SkipHours(texts) == El("", "skipHours", NoAttrs, Entries("hour", texts))

SkipDays(texts) == El("", "skipDays", NoAttrs, Entries("day", texts))

InputsC7 ==
  { Doc(Feed(Skeleton \o <<SkipHours(h)>>)) : h \in ShortLists(HourTexts) \cup LongHourLists }
  \cup { Doc(Feed(Skeleton \o <<SkipDays(d)>>)) : d \in ShortLists(DayTexts) \cup LongDayLists }
  \cup { Doc(Feed(Skeleton \o <<SkipDays(d), SkipHours(h)>>)) :
           h \in { <<<<"5">>, <<"2","5">>>> } \cup LongHourLists,
           d \in { <<<<"F","u","n","d","a","y">>, <<"m","o","n","d","a","y">>>> } }

InitC7 == InitOne(InputsC7)

SpecC7 == InitC7 /\ [][Next]_vars

(* The texts of the name children of the channel's first list element *)
EntryTexts(ch, list, name) ==
  IF ~HasDirect(ch, list) THEN <<>>
  ELSE LET entries == SelectSeq(FirstDirect(ch, list).kids,
                                LAMBDA k : k.tag = "el" /\ k.name = name)
       IN  [i \in 1..Len(entries) |-> GetTextAll(entries[i])]

IsHour(t) == ~IsNone(PyInt(t)) /\ PyInt(t).v \in 0..23

IsWeekday(t) == \E i \in 1..7 : Lower(Strip(t)) = Lower(WeekdayList[i])

(* The valid hours of the channel, as numbers, in document order *)
ValidHours(ch) ==
  LET texts == SelectSeq(EntryTexts(ch, "skipHours", "hour"), IsHour)
  IN  [i \in 1..Len(texts) |-> PyInt(texts[i]).v]

(* The valid days of the channel, as weekday names, in document order *)
ValidDays(ch) ==
  LET texts == SelectSeq(EntryTexts(ch, "skipDays", "day"), IsWeekday)
  IN  [i \in 1..Len(texts) |->
         WeekdayList[CHOOSE j \in 1..7 : Lower(Strip(texts[i])) = Lower(WeekdayList[j])]]

HasInvalidEntry(ch) ==
  \/ Len(ValidHours(ch)) < Len(EntryTexts(ch, "skipHours", "hour"))
  \/ Len(ValidDays(ch)) < Len(EntryTexts(ch, "skipDays", "day"))

GoodChannel(c) ==
  PassedChecks(c) /\ HasChannel(rss[c]) /\ ~LacksRequired(ChannelOf(rss[c]))

(* C7: skip_hours and skip_days are the valid entries of the document, in   *)
(* document order; a list with an invalid entry, whatever its length,      *)
(* raises no error and yields at most 24 hours.                            *)
C7_NeverFails ==
  \A c \in Callers :
    GoodChannel(c) =>
      LET ch == ChannelOf(rss[c])
      IN  /\ pc[c] = "done" =>
               /\ result[c].v.channel.skip_hours = ValidHours(ch)
               /\ result[c].v.channel.skip_days = ValidDays(ch)
               /\ Len(result[c].v.channel.skip_hours) <= 24
          /\ HasInvalidEntry(ch) => pc[c] # "failed"

---------------------------------------------------------------------------
(* Inputs for the optional text fields: each element absent, empty, blank, *)
(* padded or holding only a comment, in the channel and in its one item.   *)

OptionalShape(name, k) ==
  CASE k = 1 -> <<>>
    [] k = 2 -> <<Empty(name)>>
    [] k = 3 -> <<Leaf(name, <<" ">>)>>
    [] k = 4 -> <<Leaf(name, <<" ", "a", " ">>)>>
    [] k = 5 -> <<El("", name, NoAttrs, <<Comment(<<"x">>)>>)>>

(* <<field of the model, element name>> of the optional text fields *)
ChannelTextFields ==
  << <<"language", "language">>, <<"copyright", "copyright">>,
     <<"managing_editor", "managingEditor">>, <<"web_master", "webMaster">>,
     <<"pub_date", "pubDate">>, <<"last_build_date", "lastBuildDate">>,
     <<"generator", "generator">>, <<"docs", "docs">>, <<"rating", "rating">> >>

ItemTextFields ==
  << <<"title", "title">>, <<"link", "link">>, <<"description", "description">>,
     <<"author", "author">>, <<"comments", "comments">>, <<"pub_date", "pubDate">> >>

RECURSIVE ShapedFields(_, _)
(* The elements of the fields, the first shaped k[1], the second k[2], the *)
(* others k[3]                                                             *)
ShapedFields(fields, k) ==
  IF fields = <<>> THEN <<>>
  ELSE OptionalShape(Head(fields)[2], Head(k))
       \o ShapedFields(Tail(fields), IF Len(k) > 1 THEN Tail(k) ELSE k)

InputsC8 ==
  { Doc(Feed(Skeleton \o ShapedFields(ChannelTextFields, <<a, b>>)
             \o <<El("", "item", NoAttrs,
                     ShapedFields(ItemTextFields, <<t, l, d, l>>))>>)) :
      a \in 1..5, b \in 1..4, t \in 1..5, l \in 1..4, d \in 1..4 }

InitC8 == InitOne(InputsC8)

SpecC8 == InitC8 /\ [][Next]_vars

(* field is "no value" when node has no such element or an empty one, and  *)
(* is never the empty string                                               *)
EmptyCollapses(value, node, name) ==
  /\ Lacks(node, name) => IsNone(value)
  /\ value # Some(<<>>)

ItemElementsOf(ch) == SelectSeq(ch.kids, IsItem)

HasNonEmptyContent(item) == ~Lacks(item, "title") \/ ~Lacks(item, "description")

(* C8: an optional text field is "no value" both without its    *)
(* element and with an empty or blank one, never the empty string, and an  *)
(* item whose title and description elements are all empty is left out.    *)
C8_EmptyIsNoValue ==
  \A c \in Callers :
    (GoodChannel(c) /\ pc[c] = "done") =>
      LET ch == ChannelOf(rss[c])
          channel == result[c].v.channel
          kept == SelectSeq(ItemElementsOf(ch), HasNonEmptyContent)
      IN  /\ \A i \in 1..Len(ChannelTextFields) :
               EmptyCollapses(channel[ChannelTextFields[i][1]], ch,
                              ChannelTextFields[i][2])
          /\ Len(channel.items) = Len(kept)
          /\ \A n \in 1..Len(kept) : \A i \in 1..Len(ItemTextFields) :
               n <= Len(channel.items) =>
                 EmptyCollapses(channel.items[n][ItemTextFields[i][1]], kept[n],
                                ItemTextFields[i][2])

---------------------------------------------------------------------------
(* Inputs for the pipeline as a whole: every stage has inputs that fail it *)
(* and inputs that pass it.                                                *)

(* What html.parser makes of <link>u</link>: a void element and a text *)
HtmlSkeleton ==
  <<Skeleton[1], Empty("link"), Txt(<<"u">>), Skeleton[3]>>

(* bs4.exceptions.ParserRejectedMarkup, which html.parser's builder raises *)
(* when the parser gives up on the markup                                  *)
ParserRejectedMarkup(msg) == [exc |-> "ParserRejectedMarkup", msg |-> msg]

(* <rss><![foo[x]]></rss> where no XML parser is installed: html.parser    *)
(* rejects the marked section                                              *)
RejectedByHtmlParser ==
  [StrInput(<<>>,
            <<"<","r","s","s",">","<","!","[","f","o","o","[","x","]","]",">",
              "<","/","r","s","s",">">>,
            Soup(<<>>), <<>>)
     EXCEPT !.xml = "FeatureNotFound",
            !.html = Err(ParserRejectedMarkup(
                       "unknown status keyword 'foo' in marked section"))]

EngineFailures ==
  { [Doc(Feed(Skeleton)) EXCEPT !.xml = "Exception"],
    [Doc(Feed(Skeleton)) EXCEPT !.xml = "FeatureNotFound",
                                !.html = Ok(Feed(HtmlSkeleton))],
    RejectedByHtmlParser }

InputFailures ==
  { NotAString,
    StrInput(<<" ", "\n">>, <<>>, Soup(<<>>), <<>>),
    StrInput(<<"\r", "\n", "U+00A0">>, <<>>, Soup(<<>>), <<>>),
    StrInput(<<>>, Declaration(DoctypeToken), Soup(<<>>), <<>>),
    StrInput(<<>>, Declaration(EntityToken),
             Soup(<<Rss(Version20, <<>>)>>), <<>>),
    [StrInput(<<>>, Declaration(DoctypeToken), Feed(Skeleton), <<>>)
       EXCEPT !.xml = "Exception"] }

ValidationFailures ==
  { Doc(Feed(Skeleton \o <<Leaf("ttl", <<"-", "5">>)>>)),
    Doc(Feed(Skeleton \o <<Leaf("ttl", <<"6", "0">>)>>)),
    Doc(Soup(<<Rss(Version091,
                   <<Channel(Skeleton \o <<Leaf("ttl", <<"-", "5">>)>>)>>)>>)) }

Inputs ==
  InputFailures \cup EngineFailures \cup ValidationFailures
    \cup InputsC2 \cup InputsC3 \cup InputsC7

Init == InitOne(Inputs)

Spec == Init /\ [][Next]_vars

Stages ==
  <<"start", "checked", "loaded", "rss", "channel", "extracted", "constructed",
    "validated", "done">>

StageIndex(p) == CHOOSE i \in DOMAIN Stages : Stages[i] = p

(* The kind of failure each stage raises; no other stage raises *)
StageKinds ==
  [start |-> {"InputError"},
   checked |-> {"XmlSyntaxError"},
   loaded |-> {"MissingFieldError"},
   rss |-> {"MissingFieldError"},
   channel |-> {"MissingFieldError"},
   extracted |-> {},
   constructed |-> {"ValidationError"},
   validated |-> {}]

(* The invariants a returned feed must satisfy that the inputs here can    *)
(* break: the version, the required texts, ttl and the skip lists.         *)
CompleteAndValid(feed) ==
  /\ feed.version = Version20
  /\ DOMAIN feed = {"channel", "version"}
  /\ feed.channel.title # <<>>
  /\ feed.channel.link # <<>>
  /\ feed.channel.description # <<>>
  /\ IsNone(feed.channel.ttl) \/ feed.channel.ttl.v >= 0
  /\ Len(feed.channel.skip_hours) <= 24
  /\ \A i \in DOMAIN feed.channel.skip_hours : feed.channel.skip_hours[i] \in 0..23
  /\ Len(feed.channel.skip_days) <= 7
  /\ \A i \in DOMAIN feed.channel.items :
        ~IsNone(feed.channel.items[i].title)
          \/ ~IsNone(feed.channel.items[i].description)

(* Where a call stands decides what it has produced: nothing while it      *)
(* runs, one complete and valid feed once returned, one failure of the     *)
(* four kinds once failed.                                                 *)
OneOutcome(c) ==
  IF pc[c] = "done"
  THEN /\ ~IsNone(result[c]) /\ IsNone(error[c])
       /\ CompleteAndValid(result[c].v)
  ELSE IF pc[c] = "failed"
  THEN /\ IsNone(result[c]) /\ ~IsNone(error[c])
       /\ Kind(error[c].v) \in {"InputError", "XmlSyntaxError",
                                 "MissingFieldError", "ValidationError"}
  ELSE IsNone(result[c]) /\ IsNone(error[c])

(* A step of a call: to the next stage of the pipeline, or out of it with  *)
(* the failure of the stage it stands in; an ended call stays as it ended. *)
PipelineStep(c) ==
  IF pc'[c] = pc[c]
  THEN result'[c] = result[c] /\ error'[c] = error[c]
  ELSE /\ pc[c] \notin {"idle", "done", "failed"}
       /\ \/ pc'[c] = Stages[StageIndex(pc[c]) + 1]
          \/ /\ pc'[c] = "failed"
             /\ Kind(error'[c].v) \in StageKinds[pc[c]]

(* C9: every call of parse_rss moves through input check, document        *)
(* loaded, <rss> located, <channel> located, fields extracted, model       *)
(* constructed, validated, result, one stage at a time and never           *)
(* backwards, and ends in exactly one outcome: a complete, validated feed, *)
(* or one failure of kind InputError, XmlSyntaxError, MissingFieldError or *)
(* ValidationError raised by the stage at which the call stood; it never   *)
(* returns a missing value or a feed that failed validation.               *)
C9_LinearPipeline ==
  /\ [](\A c \in Callers : OneOutcome(c))
  /\ [][\A c \in Callers : PipelineStep(c)]_vars

---------------------------------------------------------------------------
(* Inputs for calls that interleave: documents that end at different       *)
(* stages.                                                                 *)

InputsC10 ==
  { Doc(Feed(Skeleton)),
    Doc(Feed(RichChannel)),
    Doc(Feed(Tail(Skeleton))),
    Doc(Soup(<<Rss(Version091, <<Channel(Skeleton)>>)>>)) }

InitC10 == InitAll(InputsC10)

SpecC10 == InitC10 /\ [][Next]_vars

Outcome(c) ==
  IF pc[c] = "done" THEN Ok(result[c].v) ELSE Err(error[c].v)

(* C10: under every interleaving of the calls, a call that has ended has   *)
(* ended as the call on its text run alone does, so that two calls on the  *)
(* same text end with equal feeds or with the same failure, whatever the   *)
(* other calls parse.                                                      *)
C10_OwnTextOnly ==
  /\ \A c \in Callers : Terminal(c) => Outcome(c) = parse_rss(rss[c])
  /\ \A c, d \in Callers :
        (Terminal(c) /\ Terminal(d) /\ TextOf(rss[c]) = TextOf(rss[d])) =>
          /\ pc[c] = pc[d]
          /\ result[c] = result[d]
          /\ error[c] = error[d]

(* Caller 1 returned its feed while caller 2, on another document, had     *)
(* loaded its own and not yet searched it                                  *)
C10_Witness ==
  /\ pc[1] = "done"
  /\ pc[2] = "loaded"
  /\ rss[1] = Doc(Feed(RichChannel))
  /\ rss[2] = Doc(Feed(Tail(Skeleton)))
  /\ result[1].v.channel.title = <<"F">>

---------------------------------------------------------------------------
(* Inputs for the date functions: date texts with and without a day name,  *)
(* a time and a zone, with what parsedate_to_datetime does with each.      *)

DateInput(text, lib) == [text |-> text, lib |-> lib]

LibReturns(datetime) == Ok(Some(datetime))

LibRaises(exc) == Err([exc |-> exc, msg |-> "parsedate_to_datetime"])

RECURSIVE Words(_)
(* The words, one space between them *)
Words(ws) ==
  IF ws = <<>> THEN <<>>
  ELSE IF Len(ws) = 1 THEN ws[1]
  ELSE ws[1] \o <<" ">> \o Words(Tail(ws))

Mon == <<"M", "o", "n", ",">>

Tue == <<"T", "u", "e", ",">>

D_01Jan2024 == <<"0", "1", " ", "J", "a", "n", " ", "2", "0", "2", "4">>

D_1Jan24 == <<"1", " ", "J", "a", "n", " ", "2", "4">>

D_31Feb2024 == <<"3", "1", " ", "F", "e", "b", " ", "2", "0", "2", "4">>

D_Jan12024 == <<"J", "a", "n", " ", "1", " ", "2", "0", "2", "4">>

D_01Foo2024 == <<"0", "1", " ", "F", "o", "o", " ", "2", "0", "2", "4">>

D_HugeYear == <<"1", " ", "J", "a", "n", " ", "1", "0", "0", "0", "0", "0", "0", "0", "0", "0", "0", "0", "0", "0", "0", "0", "0", "0", "0", "0", "0">>

T_100000 == <<"1", "0", ":", "0", "0", ":", "0", "0">>

T_1000 == <<"1", "0", ":", "0", "0">>

T_250000 == <<"2", "5", ":", "0", "0", ":", "0", "0">>

Z_GMT == <<"G", "M", "T">>

Z_Plus0000 == <<"+", "0", "0", "0", "0">>

Z_Minus0000 == <<"-", "0", "0", "0", "0">>

Z_EST == <<"E", "S", "T">>

Z_Plus0530 == <<"+", "0", "5", "3", "0">>

Z_Minus2359 == <<"-", "2", "3", "5", "9">>

Z_Plus2400 == <<"+", "2", "4", "0", "0">>

Z_XYZ == <<"X", "Y", "Z">>

Hello == <<"h", "e", "l", "l", "o">>

Iso8601 == <<"2", "0", "2", "4", "-", "0", "1", "-", "0", "1", "T", "1", "0", ":", "0", "0", ":", "0", "0", "Z">>

(* What email.utils.parsedate_to_datetime does with each text *)
DateTable ==
  <<
    DateInput(<<>>, LibRaises("ValueError")),
    DateInput(<<" ">>, LibRaises("ValueError")),
    DateInput(Words(<<D_01Jan2024, T_100000>>),
              LibReturns(DateTime(2024, 1, 1, 10, 0, 0, None))),
    DateInput(Words(<<D_01Jan2024, T_100000, Z_GMT>>),
              LibReturns(DateTime(2024, 1, 1, 10, 0, 0, Some(0)))),
    DateInput(Words(<<D_01Jan2024, T_100000, Z_Plus0000>>),
              LibReturns(DateTime(2024, 1, 1, 10, 0, 0, Some(0)))),
    DateInput(Words(<<D_01Jan2024, T_100000, Z_Minus0000>>),
              LibReturns(DateTime(2024, 1, 1, 10, 0, 0, None))),
    DateInput(Words(<<D_01Jan2024, T_100000, Z_EST>>),
              LibReturns(DateTime(2024, 1, 1, 10, 0, 0, Some(-300)))),
    DateInput(Words(<<D_01Jan2024, T_100000, Z_Plus0530>>),
              LibReturns(DateTime(2024, 1, 1, 10, 0, 0, Some(330)))),
    DateInput(Words(<<D_01Jan2024, T_100000, Z_Minus2359>>),
              LibReturns(DateTime(2024, 1, 1, 10, 0, 0, Some(-1439)))),
    DateInput(Words(<<D_01Jan2024, T_100000, Z_Plus2400>>),
              LibRaises("ValueError")),
    DateInput(Words(<<D_01Jan2024, T_100000, Z_XYZ>>),
              LibReturns(DateTime(2024, 1, 1, 10, 0, 0, None))),
    DateInput(Words(<<Mon, D_01Jan2024, T_100000>>),
              LibReturns(DateTime(2024, 1, 1, 10, 0, 0, None))),
    DateInput(Words(<<Mon, D_01Jan2024, T_100000, Z_GMT>>),
              LibReturns(DateTime(2024, 1, 1, 10, 0, 0, Some(0)))),
    DateInput(Words(<<Mon, D_01Jan2024, T_100000, Z_Plus0000>>),
              LibReturns(DateTime(2024, 1, 1, 10, 0, 0, Some(0)))),
    DateInput(Words(<<Mon, D_01Jan2024, T_100000, Z_Minus0000>>),
              LibReturns(DateTime(2024, 1, 1, 10, 0, 0, None))),
    DateInput(Words(<<Mon, D_01Jan2024, T_100000, Z_EST>>),
              LibReturns(DateTime(2024, 1, 1, 10, 0, 0, Some(-300)))),
    DateInput(Words(<<Mon, D_01Jan2024, T_100000, Z_Plus0530>>),
              LibReturns(DateTime(2024, 1, 1, 10, 0, 0, Some(330)))),
    DateInput(Words(<<Mon, D_01Jan2024, T_100000, Z_Minus2359>>),
              LibReturns(DateTime(2024, 1, 1, 10, 0, 0, Some(-1439)))),
    DateInput(Words(<<Mon, D_01Jan2024, T_100000, Z_Plus2400>>),
              LibRaises("ValueError")),
    DateInput(Words(<<Mon, D_01Jan2024, T_100000, Z_XYZ>>),
              LibReturns(DateTime(2024, 1, 1, 10, 0, 0, None))),
    DateInput(Words(<<Tue, D_01Jan2024, T_100000>>),
              LibReturns(DateTime(2024, 1, 1, 10, 0, 0, None))),
    DateInput(Words(<<Tue, D_01Jan2024, T_100000, Z_GMT>>),
              LibReturns(DateTime(2024, 1, 1, 10, 0, 0, Some(0)))),
    DateInput(Words(<<Tue, D_01Jan2024, T_100000, Z_Plus0000>>),
              LibReturns(DateTime(2024, 1, 1, 10, 0, 0, Some(0)))),
    DateInput(Words(<<Tue, D_01Jan2024, T_100000, Z_Minus0000>>),
              LibReturns(DateTime(2024, 1, 1, 10, 0, 0, None))),
    DateInput(Words(<<Tue, D_01Jan2024, T_100000, Z_EST>>),
              LibReturns(DateTime(2024, 1, 1, 10, 0, 0, Some(-300)))),
    DateInput(Words(<<Tue, D_01Jan2024, T_100000, Z_Plus0530>>),
              LibReturns(DateTime(2024, 1, 1, 10, 0, 0, Some(330)))),
    DateInput(Words(<<Tue, D_01Jan2024, T_100000, Z_Minus2359>>),
              LibReturns(DateTime(2024, 1, 1, 10, 0, 0, Some(-1439)))),
    DateInput(Words(<<Tue, D_01Jan2024, T_100000, Z_Plus2400>>),
              LibRaises("ValueError")),
    DateInput(Words(<<Tue, D_01Jan2024, T_100000, Z_XYZ>>),
              LibReturns(DateTime(2024, 1, 1, 10, 0, 0, None))),
    DateInput(Words(<<D_1Jan24, T_100000>>),
              LibReturns(DateTime(2024, 1, 1, 10, 0, 0, None))),
    DateInput(Words(<<D_1Jan24, T_100000, Z_GMT>>),
              LibReturns(DateTime(2024, 1, 1, 10, 0, 0, Some(0)))),
    DateInput(Words(<<D_1Jan24, T_100000, Z_EST>>),
              LibReturns(DateTime(2024, 1, 1, 10, 0, 0, Some(-300)))),
    DateInput(Words(<<D_1Jan24, T_1000>>),
              LibReturns(DateTime(2024, 1, 1, 10, 0, 0, None))),
    DateInput(Words(<<D_1Jan24, T_1000, Z_GMT>>),
              LibReturns(DateTime(2024, 1, 1, 10, 0, 0, Some(0)))),
    DateInput(Words(<<D_1Jan24, T_1000, Z_EST>>),
              LibReturns(DateTime(2024, 1, 1, 10, 0, 0, Some(-300)))),
    DateInput(Words(<<D_1Jan24, T_250000>>),
              LibRaises("ValueError")),
    DateInput(Words(<<D_1Jan24, T_250000, Z_GMT>>),
              LibRaises("ValueError")),
    DateInput(Words(<<D_1Jan24, T_250000, Z_EST>>),
              LibRaises("ValueError")),
    DateInput(Words(<<D_1Jan24>>),
              LibRaises("ValueError")),
    DateInput(Words(<<D_1Jan24, Z_GMT>>),
              LibRaises("ValueError")),
    DateInput(Words(<<D_1Jan24, Z_EST>>),
              LibRaises("ValueError")),
    DateInput(Words(<<D_31Feb2024, T_100000>>),
              LibRaises("ValueError")),
    DateInput(Words(<<D_31Feb2024, T_100000, Z_GMT>>),
              LibRaises("ValueError")),
    DateInput(Words(<<D_31Feb2024, T_100000, Z_EST>>),
              LibRaises("ValueError")),
    DateInput(Words(<<D_31Feb2024, T_1000>>),
              LibRaises("ValueError")),
    DateInput(Words(<<D_31Feb2024, T_1000, Z_GMT>>),
              LibRaises("ValueError")),
    DateInput(Words(<<D_31Feb2024, T_1000, Z_EST>>),
              LibRaises("ValueError")),
    DateInput(Words(<<D_31Feb2024, T_250000>>),
              LibRaises("ValueError")),
    DateInput(Words(<<D_31Feb2024, T_250000, Z_GMT>>),
              LibRaises("ValueError")),
    DateInput(Words(<<D_31Feb2024, T_250000, Z_EST>>),
              LibRaises("ValueError")),
    DateInput(Words(<<D_31Feb2024>>),
              LibRaises("ValueError")),
    DateInput(Words(<<D_31Feb2024, Z_GMT>>),
              LibRaises("ValueError")),
    DateInput(Words(<<D_31Feb2024, Z_EST>>),
              LibRaises("ValueError")),
    DateInput(Words(<<D_Jan12024, T_100000>>),
              LibReturns(DateTime(2024, 1, 1, 10, 0, 0, None))),
    DateInput(Words(<<D_Jan12024, T_100000, Z_GMT>>),
              LibReturns(DateTime(2024, 1, 1, 10, 0, 0, Some(0)))),
    DateInput(Words(<<D_Jan12024, T_100000, Z_EST>>),
              LibReturns(DateTime(2024, 1, 1, 10, 0, 0, Some(-300)))),
    DateInput(Words(<<D_Jan12024, T_1000>>),
              LibReturns(DateTime(2024, 1, 1, 10, 0, 0, None))),
    DateInput(Words(<<D_Jan12024, T_1000, Z_GMT>>),
              LibReturns(DateTime(2024, 1, 1, 10, 0, 0, Some(0)))),
    DateInput(Words(<<D_Jan12024, T_1000, Z_EST>>),
              LibReturns(DateTime(2024, 1, 1, 10, 0, 0, Some(-300)))),
    DateInput(Words(<<D_Jan12024, T_250000>>),
              LibRaises("ValueError")),
    DateInput(Words(<<D_Jan12024, T_250000, Z_GMT>>),
              LibRaises("ValueError")),
    DateInput(Words(<<D_Jan12024, T_250000, Z_EST>>),
              LibRaises("ValueError")),
    DateInput(Words(<<D_Jan12024>>),
              LibRaises("ValueError")),
    DateInput(Words(<<D_Jan12024, Z_GMT>>),
              LibRaises("ValueError")),
    DateInput(Words(<<D_Jan12024, Z_EST>>),
              LibRaises("ValueError")),
    DateInput(Words(<<D_01Foo2024, T_100000>>),
              LibRaises("ValueError")),
    DateInput(Words(<<D_01Foo2024, T_100000, Z_GMT>>),
              LibRaises("ValueError")),
    DateInput(Words(<<D_01Foo2024, T_100000, Z_EST>>),
              LibRaises("ValueError")),
    DateInput(Words(<<D_01Foo2024, T_1000>>),
              LibRaises("ValueError")),
    DateInput(Words(<<D_01Foo2024, T_1000, Z_GMT>>),
              LibRaises("ValueError")),
    DateInput(Words(<<D_01Foo2024, T_1000, Z_EST>>),
              LibRaises("ValueError")),
    DateInput(Words(<<D_01Foo2024, T_250000>>),
              LibRaises("ValueError")),
    DateInput(Words(<<D_01Foo2024, T_250000, Z_GMT>>),
              LibRaises("ValueError")),
    DateInput(Words(<<D_01Foo2024, T_250000, Z_EST>>),
              LibRaises("ValueError")),
    DateInput(Words(<<D_01Foo2024>>),
              LibRaises("ValueError")),
    DateInput(Words(<<D_01Foo2024, Z_GMT>>),
              LibRaises("ValueError")),
    DateInput(Words(<<D_01Foo2024, Z_EST>>),
              LibRaises("ValueError")),
    DateInput(Words(<<D_HugeYear, T_100000>>),
              LibRaises("OverflowError")),
    DateInput(Words(<<D_HugeYear, T_100000, Z_GMT>>),
              LibRaises("OverflowError")),
    DateInput(Words(<<D_HugeYear, T_100000, Z_EST>>),
              LibRaises("OverflowError")),
    DateInput(Words(<<D_HugeYear, T_1000>>),
              LibRaises("OverflowError")),
    DateInput(Words(<<D_HugeYear, T_1000, Z_GMT>>),
              LibRaises("OverflowError")),
    DateInput(Words(<<D_HugeYear, T_1000, Z_EST>>),
              LibRaises("OverflowError")),
    DateInput(Words(<<D_HugeYear, T_250000>>),
              LibRaises("OverflowError")),
    DateInput(Words(<<D_HugeYear, T_250000, Z_GMT>>),
              LibRaises("OverflowError")),
    DateInput(Words(<<D_HugeYear, T_250000, Z_EST>>),
              LibRaises("OverflowError")),
    DateInput(Words(<<D_HugeYear>>),
              LibRaises("ValueError")),
    DateInput(Words(<<D_HugeYear, Z_GMT>>),
              LibRaises("ValueError")),
    DateInput(Words(<<D_HugeYear, Z_EST>>),
              LibRaises("ValueError")),
    DateInput(Words(<<D_01Jan2024, T_1000>>),
              LibReturns(DateTime(2024, 1, 1, 10, 0, 0, None))),
    DateInput(Words(<<D_01Jan2024, T_1000, Z_GMT>>),
              LibReturns(DateTime(2024, 1, 1, 10, 0, 0, Some(0)))),
    DateInput(Words(<<D_01Jan2024, T_1000, Z_EST>>),
              LibReturns(DateTime(2024, 1, 1, 10, 0, 0, Some(-300)))),
    DateInput(Words(<<D_01Jan2024, T_250000>>),
              LibRaises("ValueError")),
    DateInput(Words(<<D_01Jan2024, T_250000, Z_GMT>>),
              LibRaises("ValueError")),
    DateInput(Words(<<D_01Jan2024, T_250000, Z_EST>>),
              LibRaises("ValueError")),
    DateInput(Words(<<D_01Jan2024>>),
              LibRaises("ValueError")),
    DateInput(Words(<<D_01Jan2024, Z_GMT>>),
              LibRaises("ValueError")),
    DateInput(Words(<<D_01Jan2024, Z_EST>>),
              LibRaises("ValueError")),
    DateInput(Words(<<Hello>>),
              LibRaises("ValueError")),
    DateInput(Words(<<Iso8601>>),
              LibRaises("ValueError")),
    DateInput(Words(<<Mon>>),
              LibRaises("ValueError")),
    DateInput(Words(<<Mon, Hello>>),
              LibRaises("ValueError"))>>

DateValues == { Some(DateTable[i]) : i \in DOMAIN DateTable } \cup { None }

(* Both functions are called on one value; parse_rfc822_date takes a str,  *)
(* so it is not called on None.                                            *)
InitC11 ==
  /\ \E value \in DateValues :
       date = [f \in DateFns |->
                IF f = "parse_optional_rfc822_date" THEN DateCall(value, "called")
                ELSE IF IsNone(value) THEN DateCall(None, "idle")
                ELSE DateCall(value, "start")]
  /\ rss = [c \in Callers |-> Doc(Soup(<<>>))]
  /\ pc = [c \in Callers |-> "idle"]
  /\ local = [c \in Callers |-> NoLocals]
  /\ result = [c \in Callers |-> None]
  /\ error = [c \in Callers |-> None]
  /\ engine_calls = [c \in Callers |-> 0]

SpecC11 == InitC11 /\ [][NextDate]_vars

RECURSIVE LastWord(_)
LastWord(text) ==
  IF text = <<>> \/ text[Len(text)] = " " THEN <<>>
  ELSE LastWord(SubSeq(text, 1, Len(text) - 1)) \o <<text[Len(text)]>>

(* The zone names of RFC 822 and their offsets in minutes *)
ZoneNames ==
  { [name |-> <<"U", "T">>, minutes |-> 0],
    [name |-> <<"G", "M", "T">>, minutes |-> 0],
    [name |-> <<"E", "S", "T">>, minutes |-> -300],
    [name |-> <<"E", "D", "T">>, minutes |-> -240],
    [name |-> <<"C", "S", "T">>, minutes |-> -360],
    [name |-> <<"C", "D", "T">>, minutes |-> -300],
    [name |-> <<"M", "S", "T">>, minutes |-> -420],
    [name |-> <<"M", "D", "T">>, minutes |-> -360],
    [name |-> <<"P", "S", "T">>, minutes |-> -480],
    [name |-> <<"P", "D", "T">>, minutes |-> -420] }

IsNumericZone(w) ==
  /\ Len(w) = 5
  /\ w[1] \in {"+", "-"}
  /\ \A i \in 2..5 : IsDigit(w[i])

(* The offset the text states, in minutes, if it states one *)
ExplicitOffset(text) ==
  LET w == LastWord(text)
  IN  IF IsNumericZone(w)
      THEN Some((IF w[1] = "-" THEN -1 ELSE 1)
                  * ((DigitVal(w[2]) * 10 + DigitVal(w[3])) * 60
                     + DigitVal(w[4]) * 10 + DigitVal(w[5])))
      ELSE IF \E z \in ZoneNames : z.name = w
      THEN Some((CHOOSE z \in ZoneNames : z.name = w).minutes)
      ELSE None

ExpectedOffset(text) ==
  IF IsNone(ExplicitOffset(text)) THEN 0 ELSE ExplicitOffset(text).v

(* C11: a date function that has returned has returned a timestamp with a  *)
(* zone, the one the text states or UTC when it states none, and one that  *)
(* has failed (as it does on empty text and on any text the date grammar   *)
(* rejects) has failed with RssDateError; parse_optional_rfc822_date       *)
(* returns no value for an absent input without calling the date parser    *)
(* and ends as parse_rfc822_date does for every present input, the empty   *)
(* string included.                                                        *)
C11_ZonedOrDateError ==
  /\ \A f \in DateFns :
       LET d == date[f]
       IN  /\ (d.pc = "done" /\ ~IsNone(d.value)) =>
                /\ ~IsNone(d.out.v)
                /\ d.value.v.text # <<>>
                /\ d.out.v.v.tzinfo = Some(ExpectedOffset(d.value.v.text))
           /\ (d.pc = "done" /\ IsNone(d.value)) =>
                IsNone(d.out.v) /\ d.calls = 0
           /\ d.pc = "failed" => d.out.err.exc = "RssDateError"
  /\ (date["parse_rfc822_date"].pc \in {"done", "failed"}
        /\ date["parse_optional_rfc822_date"].pc \in {"done", "failed"}) =>
       /\ date["parse_rfc822_date"].pc = date["parse_optional_rfc822_date"].pc
       /\ date["parse_rfc822_date"].out = date["parse_optional_rfc822_date"].out

---------------------------------------------------------------------------
(* Inputs for the validation pass: documents that break none, one or       *)
(* several of the version, skip-hour, skip-day and ttl invariants.         *)

ValidHourTexts(n) == [i \in 1..n |-> TwoDigits((i - 1) % 24)]

ValidDayTexts(n) == [i \in 1..n |-> WeekdayList[((i - 1) % 7) + 1]]

HourChoices ==
  { <<>>, <<SkipHours(ValidHourTexts(MaxSkipHours))>>,
    <<SkipHours(ValidHourTexts(MaxSkipHours + 1))>> }

DayChoices ==
  { <<>>, <<SkipDays(ValidDayTexts(MaxSkipDays))>>,
    <<SkipDays(ValidDayTexts(MaxSkipDays + 1))>> }

TtlChoices ==
  { <<>>, <<Leaf("ttl", <<"6", "0">>)>>, <<Leaf("ttl", <<"-", "5">>)>> }

ItemChoices ==
  { <<>>,
    <<El("", "item", NoAttrs, <<Leaf("link", <<"1">>)>>),
      El("", "item", NoAttrs, <<Leaf("title", <<"a">>)>>)>> }

InputsC12 ==
  { Doc(Soup(<<Rss(v, <<Channel(Skeleton \o t \o i \o d \o h)>>)>>)) :
      v \in {Version20, Version091}, t \in TtlChoices, i \in ItemChoices,
      d \in DayChoices, h \in HourChoices }

InitC12 == InitOne(InputsC12)

SpecC12 == InitC12 /\ [][Next]_vars

(* The number in <ttl>, if it holds one *)
TtlOf(ch) ==
  IF HasDirect(ch, "ttl") THEN PyInt(TrimmedText(FirstDirect(ch, "ttl"))) ELSE None

Breaks(r, check) ==
  IF check = "version" THEN RssOf(r).attrs.version.v # Version20
  ELSE IF check = "skip_hours" THEN Len(ValidHours(ChannelOf(r))) > 24
  ELSE IF check = "skip_days" THEN Len(ValidDays(ChannelOf(r))) > 7
  ELSE ~IsNone(TtlOf(ChannelOf(r))) /\ TtlOf(ChannelOf(r)).v < 0

(* The invariants the document's values break; the items that lack both    *)
(* title and description are skipped at extraction and break nothing.      *)
Violated(r) ==
  { check \in {"version", "skip_hours", "skip_days", "ttl"} : Breaks(r, check) }

(* The invariants the extracted values break: no <day> entry is extracted  *)
(* (valid_days is empty), so the bound on the days is never among them.    *)
ViolatedByExtracted(r) == Violated(r) \ {"skip_days"}

CheckMessage ==
  [version |-> "RSS 2.0 documents must declare version '2.0'.",
   skip_hours |-> "skip_hours may contain at most 24 entries.",
   skip_days |-> "skip_days may contain at most the seven days of the week.",
   ttl |-> "ttl must be a non-negative number of minutes.",
   items |-> "RSS items require at least a title or a description."]

ClaimedOrder == <<"version", "skip_hours", "skip_days", "ttl", "items">>

SourceOrder == <<"skip_hours", "skip_days", "ttl", "items", "version">>

FirstIn(order, broken) ==
  order[Least({ i \in DOMAIN order : order[i] \in broken })]

(* A call on a channel with its required texts ends with the error of the  *)
(* first broken invariant of the order, or returns when none is broken     *)
ObservesFirstOf(order, broken, c) ==
  (GoodChannel(c) /\ Terminal(c)) =>
    IF broken = {}
    THEN pc[c] = "done"
    ELSE /\ pc[c] = "failed"
         /\ IsNone(result[c])
         /\ Kind(error[c].v) = "ValidationError"
         /\ error[c].v.msg = CheckMessage[FirstIn(order, broken)]

(* C12 as claimed: the validation pass stops at the first broken           *)
(* invariant in the order version, skip hours, skip days, ttl, items, so a *)
(* document with version 0.91 and a negative ttl fails on the version.     *)
C12_VersionFirst ==
  \A c \in Callers : ObservesFirstOf(ClaimedOrder, Violated(rss[c]), c)

(* C12 amended: the validation pass stops at the first invariant that the  *)
(* extracted values break, in the order skip hours, skip days, ttl, items, *)
(* version: the version is checked last, so a document with version 0.91   *)
(* and a negative ttl fails on the ttl, and the version error is seen only *)
(* when nothing else is broken.  The <day> entries of a document, however  *)
(* many, are not extracted and never make the call fail.                   *)
C12_VersionLast ==
  \A c \in Callers : ObservesFirstOf(SourceOrder, ViolatedByExtracted(rss[c]), c)

(* Version 0.91, a negative ttl and 25 valid hours: the call failed on the *)
(* hours                                                                   *)
C12_Witness ==
  /\ pc[1] = "failed"
  /\ Violated(rss[1]) = {"version", "ttl", "skip_hours"}
  /\ error[1].v.msg = CheckMessage["skip_hours"]

---------------------------------------------------------------------------
(* Inputs for the invariants of a returned feed: images, clouds and        *)
(* enclosures within and beyond their limits, skip lists, and documents    *)
(* that break the feed's or the channel's own invariants.                  *)

LengthTexts ==
  { <<"1","0">>, <<"0">>, <<"-","1">>, <<" ","-","7"," ">>, <<"x">>, <<>> }

EnclosureAttrNames == <<"url", "length", "type">>

EnclosureWith(length) ==
  El("", "enclosure", Attrs(EnclosureAttrNames, <<<<"u">>, length, <<"t">>>>), <<>>)

ItemWith(kids) == El("", "item", NoAttrs, kids)

EnclosureDocs ==
  { Doc(Feed(Skeleton \o <<ItemWith(<<Leaf("title", <<"a">>), EnclosureWith(n)>>),
                           ItemWith(<<EnclosureWith(n)>>),
                           ItemWith(<<EnclosureWith(n), Leaf("description", <<"b">>)>>)>>)) :
      n \in LengthTexts }

InputsC13 ==
  { Doc(Feed(Skeleton \o <<img>>)) : img \in Images }
    \cup EnclosureDocs \cup InputsC6 \cup InputsC7 \cup InputsC12

InitC13 == InitOne(InputsC13)

SpecC13 == InitC13 /\ [][Next]_vars

WeekdayNames == { WeekdayList[i] : i \in 1..7 }

(* Every invariant of the document model, on a feed *)
ModelInvariants(feed) ==
  LET ch == feed.channel
  IN  /\ feed.version = <<"2", ".", "0">>
      /\ Len(ch.skip_hours) <= 24
      /\ \A i \in DOMAIN ch.skip_hours : ch.skip_hours[i] \in 0..23
      /\ Len(ch.skip_days) <= 7
      /\ \A i \in DOMAIN ch.skip_days : ch.skip_days[i] \in WeekdayNames
      /\ IsNone(ch.ttl) \/ ch.ttl.v >= 0
      /\ \A i \in DOMAIN ch.items :
            /\ ~IsNone(ch.items[i].title) \/ ~IsNone(ch.items[i].description)
            /\ IsNone(ch.items[i].enclosure) \/ ch.items[i].enclosure.v.length >= 0
      /\ IsNone(ch.image) \/ (ch.image.v.width <= 144 /\ ch.image.v.height <= 400)
      /\ IsNone(ch.cloud) \/ ch.cloud.v.protocol \in AcceptedSpellings

(* C13: every feed parse_rss returns satisfies all the invariants of the   *)
(* document model (version 2.0; at most 24 skip hours, each in 0..23; at   *)
(* most 7 skip days, each a weekday name; ttl absent or >= 0; every item   *)
(* with a title or a description; image within 144 by 400; enclosure       *)
(* length >= 0; cloud protocol allowed), and a document whose version,     *)
(* ttl, valid hours or valid days break one of them fails with a           *)
(* ValidationError and returns nothing.                                    *)
C13_ReturnedFeedValid ==
  \A c \in Callers :
    /\ pc[c] = "done" => ModelInvariants(result[c].v)
    /\ (GoodChannel(c) /\ Terminal(c) /\ Violated(rss[c]) # {}) =>
         /\ pc[c] = "failed"
         /\ IsNone(result[c])
         /\ Kind(error[c].v) = "ValidationError"

---------------------------------------------------------------------------
(* Inputs for the structured optional elements: each element complete,     *)
(* and with one of its required sub-fields absent, empty, blank, a comment *)
(* or malformed; every document is paired with the same document without the  *)
(* element.                                                                *)

Texts == { <<"x">>, <<>>, <<" ">> }

(* seq with its i-th entry left out *)
Without(seq, i) == SubSeq(seq, 1, i - 1) \o SubSeq(seq, i + 1, Len(seq))

(* The element with children of the names, all with text "x", and every    *)
(* variant with one child left out, empty or blank                         *)
ChildVariants(name, children) ==
  LET full == [i \in 1..Len(children) |-> Leaf(children[i], <<"x">>)]
  IN  { El("", name, NoAttrs, full) }
      \cup { El("", name, NoAttrs, Without(full, i)) : i \in 1..Len(children) }
      \cup { El("", name, NoAttrs, [full EXCEPT ![i] = Leaf(children[i], t)]) :
               i \in 1..Len(children), t \in Texts }

(* The element with the attributes, and every variant with one attribute   *)
(* left out or given one of the other values                               *)
AttrVariants(name, attrs, values, others, kids) ==
  { El("", name, Attrs(attrs, values), kids) }
  \cup { El("", name, Attrs(Without(attrs, i), Without(values, i)), kids) :
           i \in 1..Len(attrs) }
  \cup { El("", name, Attrs(attrs, [values EXCEPT ![i] = t]), kids) :
           i \in 1..Len(attrs), t \in others }

ChannelStructures ==
  ChildVariants("image", <<"url", "title", "link">>)
  \cup ChildVariants("textInput", <<"title", "description", "name", "link">>)
  \cup AttrVariants("cloud", CloudAttrNames,
                    <<<<"h">>, <<"8","0">>, <<"/">>, <<"n">>, ProtoXmlRpc>>,
                    { <<>>, <<"x">> }, <<>>)

ItemStructures ==
  AttrVariants("enclosure", EnclosureAttrNames, <<<<"u">>, <<"1","0">>, <<"t">>>>,
               { <<>>, <<"x">>, <<"-","1">> }, <<>>)
  \cup UNION { AttrVariants("source", <<"url">>, <<<<"u">>>>, { <<>>, <<" ">> }, kids) :
                 kids \in { <<>>, <<Txt(<<"n">>)>>, <<Txt(<<" ">>)>>, <<Comment(<<"x">>)>> } }
  \cup UNION { AttrVariants("guid", <<"isPermaLink">>, <<<<"f","a","l","s","e">>>>, {}, kids) :
                 kids \in { <<>>, <<Txt(<<"g">>)>>, <<Txt(<<" ">>)>>, <<Comment(<<"x">>)>> } }

PlainItem == <<Leaf("title", <<"a">>), Leaf("link", <<"1">>)>>

PlainRest == <<Leaf("language", <<"e", "n">>), Leaf("ttl", <<"6", "0">>)>>

PairsC14 ==
  UNION { { <<Doc(Feed(Skeleton \o <<el>> \o PlainRest \o <<ItemWith(PlainItem)>>)),
              Doc(Feed(Skeleton \o PlainRest \o <<ItemWith(PlainItem)>>))>>,
            <<Doc(Feed(Skeleton \o <<ItemWith(PlainItem)>> \o <<el>>)),
              Doc(Feed(Skeleton \o <<ItemWith(PlainItem)>>))>> } :
          el \in ChannelStructures }
  \cup UNION { { <<Doc(Feed(Skeleton \o <<ItemWith(<<el>> \o PlainItem)>>)),
                   Doc(Feed(Skeleton \o <<ItemWith(PlainItem)>>))>>,
                 <<Doc(Feed(Skeleton \o PlainRest \o <<ItemWith(PlainItem \o <<el>>)>>)),
                   Doc(Feed(Skeleton \o PlainRest \o <<ItemWith(PlainItem)>>))>> } :
               el \in ItemStructures }

InitC14 == InitPair(PairsC14)

SpecC14 == InitC14 /\ [][Next]_vars

StructuredNames == {"cloud", "image", "textInput", "enclosure", "guid", "source"}

ChannelLevel == {"cloud", "image", "textInput"}

HasOwner(r, name) ==
  HasChannel(r) /\ (name \in ChannelLevel \/ HasDirect(ChannelOf(r), "item"))

(* The element that owns the structured element: the channel, or the       *)
(* channel's first item                                                    *)
OwnerOf(r, name) ==
  IF name \in ChannelLevel THEN ChannelOf(r)
  ELSE FirstDirect(ChannelOf(r), "item")

HasStructured(r, name) == HasOwner(r, name) /\ HasDirect(OwnerOf(r, name), name)

StructuredOf(r, name) == FirstDirect(OwnerOf(r, name), name)

(* The field of the returned feed that holds the structured value *)
FieldOf(feed, name) ==
  IF name = "cloud" THEN feed.channel.cloud
  ELSE IF name = "image" THEN feed.channel.image
  ELSE IF name = "textInput" THEN feed.channel.text_input
  ELSE IF name = "enclosure" THEN feed.channel.items[1].enclosure
  ELSE IF name = "guid" THEN feed.channel.items[1].guid
  ELSE feed.channel.items[1].source

Attribute(name) == [kind |-> "attr", name |-> name]

Child(name) == [kind |-> "child", name |-> name]

OwnText == [kind |-> "text", name |-> ""]

(* The required sub-fields of each structured element *)
RequiredOf(name) ==
  IF name = "cloud" THEN { Attribute(a) : a \in { CloudAttrNames[i] : i \in 1..5 } }
  ELSE IF name = "image" THEN { Child("url"), Child("title"), Child("link") }
  ELSE IF name = "textInput"
  THEN { Child("title"), Child("description"), Child("name"), Child("link") }
  ELSE IF name = "enclosure"
  THEN { Attribute(a) : a \in { EnclosureAttrNames[i] : i \in 1..3 } }
  ELSE IF name = "guid" THEN { OwnText }
  ELSE { Attribute("url"), OwnText }

IsAbsent(el, f) ==
  IF f.kind = "attr" THEN f.name \notin DOMAIN el.attrs
  ELSE IF f.kind = "child" THEN ~HasDirect(el, f.name)
  ELSE FALSE

(* The trimmed value of a sub-field that is there *)
ValueOf(el, f) ==
  IF f.kind = "attr" THEN Strip(el.attrs[f.name].v)
  ELSE IF f.kind = "child" THEN TrimmedText(FirstDirect(el, f.name))
  ELSE TrimmedText(el)

IsEmpty(el, f) == ~IsAbsent(el, f) /\ ValueOf(el, f) = <<>>

(* A cloud port or an enclosure length that is no integer, an enclosure    *)
(* length below 0, a cloud protocol that is not allowed                    *)
IsMalformed(el, f) ==
  /\ ~IsAbsent(el, f)
  /\ \/ /\ el.name \in {"cloud", "enclosure"} /\ f.name \in {"port", "length"}
        /\ IsNone(PyInt(ValueOf(el, f)))
     \/ /\ el.name = "enclosure" /\ f.name = "length"
        /\ ~IsNone(PyInt(ValueOf(el, f))) /\ PyInt(ValueOf(el, f)).v < 0
     \/ /\ el.name = "cloud" /\ f.name = "protocol"
        /\ ValueOf(el, f) \notin AcceptedSpellings

LackingAsClaimed(el) ==
  \E f \in RequiredOf(el.name) : IsAbsent(el, f) \/ IsEmpty(el, f) \/ IsMalformed(el, f)

(* Caller 1 parsed the document with the structured element, caller 2 the  *)
(* same document without it                                                *)
PairedOn(name) ==
  /\ pc[2] # "idle"
  /\ HasStructured(rss[1], name)
  /\ HasOwner(rss[2], name) /\ ~HasStructured(rss[2], name)

(* Caller 1 ended without failing and without the value, and as caller 2   *)
(* ended: the owner and all its other fields are what they are without the *)
(* element                                                                 *)
Degraded(name) ==
  /\ Terminal(1) => pc[1] = "done" /\ IsNone(FieldOf(result[1].v, name))
  /\ (Terminal(1) /\ Terminal(2)) => result[1] = result[2]

(* C14: a structured optional element one of whose required     *)
(* sub-fields is absent, empty or malformed gives no value, does not fail  *)
(* the call, and leaves the owning channel or item as it is without the    *)
(* element.                                                                *)
C14_DroppedWhenAbsentOrEmpty ==
  \A name \in StructuredNames :
    (PairedOn(name) /\ LackingAsClaimed(StructuredOf(rss[1], name))) =>
      Degraded(name)

=============================================================================
